---- MODULE Spec2Model ----
(***************************************************************************)
(* Model of the synthetic seismogram engine of pyrocko.gf.seismosizer:     *)
(* source time functions, source models with base_key / discretization,    *)
(* the request planner (Request.subrequest_map), process_subrequest, and   *)
(* LocalEngine (store lookup, store cache, process).                       *)
(*                                                                         *)
(* Numbers: floats of the program are exact rationals <<n, d>> (d > 0, in  *)
(* lowest terms) wherever the program does arithmetic on them; parameters  *)
(* that are only copied or compared are integers.                          *)
(***************************************************************************)
EXTENDS Integers, Sequences, FiniteSets, TLC

VARIABLES
    engine,        \* LocalEngine: configuration and the three private caches
    last_call,     \* the last engine lookup: operation, argument, outcome
    history,       \* per store id: handles get_store returned, Stores it built
    heap,          \* the source objects, by object id (sources are mutable)
    request,       \* Request: sources (object ids) and targets (target ids)
    pc,            \* position of LocalEngine.process
    work,          \* process: the work handed to parimap, by subrequest key
    pending,       \* keys of the work items not yet run by the map
    returned,      \* what completed work items returned, not yet yielded
    results_list,  \* process: results_list[isource][itarget]
    dsource_cache, \* pshared['dsource_cache'] of the running process call
    counters,      \* bookkeeping: calls of base_seismogram
    err,           \* the exception that left process (kind "None": none)
    stats,         \* ProcessingStats of the finished call
    src_a, src_b,  \* two source objects handed to the pure source methods
    fn_out,        \* results of the pure source methods applied to them
    call,          \* one call of a library function: arguments and outcome
    class_keys     \* Cloneable._keys as each class sees it (class attribute)

vars == <<engine, last_call, history, heap, request, pc, work, pending,
          returned, results_list, dsource_cache, counters, err, stats,
          src_a, src_b, fn_out, call, class_keys>>

engine_vars == <<engine, last_call, history>>
process_vars == <<heap, request, pc, work, pending, returned, results_list,
                  dsource_cache, counters, err, stats>>
source_vars == <<src_a, src_b, fn_out, call, class_keys>>

---------------------------------------------------------------------------
(* Exact rational arithmetic for the program's floats.                     *)

Abs(x) == IF x < 0 THEN -x ELSE x

RECURSIVE GCD(_, _)
GCD(a, b) == IF b = 0 THEN a ELSE GCD(b, a % b)

Rat(n, d) ==
    LET g == GCD(Abs(n), Abs(d))
        s == IF d < 0 THEN -1 ELSE 1
    IN  <<(s * n) \div g, (s * d) \div g>>

RInt(n) == <<n, 1>>
RZero == RInt(0)
ROne == RInt(1)
RHalf == Rat(1, 2)
RAdd(a, b) == Rat(a[1] * b[2] + b[1] * a[2], a[2] * b[2])
RSub(a, b) == Rat(a[1] * b[2] - b[1] * a[2], a[2] * b[2])
RMul(a, b) == Rat(a[1] * b[1], a[2] * b[2])
RDiv(a, b) == Rat(a[1] * b[2], a[2] * b[1])
RLt(a, b) == a[1] * b[2] < b[1] * a[2]
RMin(a, b) == IF RLt(b, a) THEN b ELSE a
RMax(a, b) == IF RLt(a, b) THEN b ELSE a
\* math.floor, math.ceil and Python 2's round (halves away from zero)
RFloor(a) == a[1] \div a[2]
RCeil(a) == -((-a[1]) \div a[2])
RRound(a) ==
    IF a[1] >= 0 THEN (2 * a[1] + a[2]) \div (2 * a[2])
    ELSE -((2 * (-a[1]) + a[2]) \div (2 * a[2]))

RECURSIVE RSum(_)
RSum(s) == IF s = <<>> THEN RZero ELSE RAdd(Head(s), RSum(Tail(s)))

\* Python's None in an optional numeric attribute
None == <<>>

\* num.repeat(x, n) and num.tile(s, n)
repeat(x, n) == [i \in 1..n |-> x]
tile(s, n) == [i \in 1..(n * Len(s)) |-> s[((i - 1) % Len(s)) + 1]]
\* num.repeat(s, nt) of an array: every element nt times, in order
repeat_each(s, nt) == [i \in 1..(nt * Len(s)) |-> s[((i - 1) \div nt) + 1]]

---------------------------------------------------------------------------
(* Source time functions.  An STF object is a record; oid is its object    *)
(* identity.  NoSTF stands for Python's None in an optional STF attribute. *)

NoSTF == [cls |-> "None", oid |-> "None", duration |-> RZero, anchor |-> RZero]

g_unit_pulse ==
    [cls |-> "STF", oid |-> "g_unit_pulse", duration |-> RZero, anchor |-> RZero]

STF_base_key(stf) == <<stf.cls>>

BoxcarSTF_base_key(stf) == <<stf.duration, stf.anchor, stf.cls>>

stf_base_key(stf) ==
    CASE stf.cls = "STF" -> STF_base_key(stf)
      [] stf.cls = "BoxcarSTF" -> BoxcarSTF_base_key(stf)

\* the unit pulse split with weights that are not divided by deltat
STF_discretize_t_undivided(stf, deltat, tref) ==
    LET tl == RMul(RInt(RFloor(RDiv(tref, deltat))), deltat)
        th == RMul(RInt(RCeil(RDiv(tref, deltat))), deltat)
    IN  IF tl = th
        THEN [times |-> <<tl>>, amplitudes |-> <<ROne>>]
        ELSE [times |-> <<tl, th>>,
              amplitudes |-> <<RSub(th, tref), RSub(tref, tl)>>]

\* STF.discretize_t: the unit pulse, split over the two samples around tref
STF_discretize_t(stf, deltat, tref) ==
    LET tl == RMul(RInt(RFloor(RDiv(tref, deltat))), deltat)
        th == RMul(RInt(RCeil(RDiv(tref, deltat))), deltat)
    IN  IF tl = th
        THEN [times |-> <<tl>>, amplitudes |-> <<ROne>>]
        ELSE [times |-> <<tl, th>>,
              amplitudes |-> <<RDiv(RSub(th, tref), deltat),
                               RDiv(RSub(tref, tl), deltat)>>]

sshift(times, amplitudes, tshift, deltat) ==
    LET t0 == RMul(RInt(RFloor(RDiv(tshift, deltat))), deltat)
        t1 == RMul(RInt(RCeil(RDiv(tshift, deltat))), deltat)
        n == Len(amplitudes)
        wl == RDiv(RSub(t1, tshift), deltat)
        wr == RDiv(RSub(tshift, t0), deltat)
        amplitudes2 ==
            [i \in 1..(n + 1) |->
                RAdd(IF i <= n THEN RMul(wl, amplitudes[i]) ELSE RZero,
                     IF i >= 2 THEN RMul(wr, amplitudes[i - 1]) ELSE RZero)]
        times2 ==
            [i \in 1..(Len(times) + 1) |->
                RAdd(RAdd(RMul(RInt(i - 1), deltat), times[1]), t0)]
    IN  IF t0 = t1
        THEN [times |-> times, amplitudes |-> amplitudes]
        ELSE [times |-> times2, amplitudes |-> amplitudes2]

BoxcarSTF_centroid_time(stf, tref) ==
    RSub(tref, RMul(RMul(RHalf, stf.duration), stf.anchor))

\* util.plf_integrate_piecewise(t_edges, t, f) for the boxcar's nodes
\* t = tmin_stf + duration * [0, 0, 1, 1], f = [0, 1, 1, 0]: the integral of
\* the unit boxcar over each bin is the length of the bin inside the boxcar.
plf_integrate_boxcar(t_edges, tmin_stf, tmax_stf) ==
    [i \in 1..(Len(t_edges) - 1) |->
        LET lo == RMax(t_edges[i], tmin_stf)
            hi == RMin(t_edges[i + 1], tmax_stf)
        IN  IF RLt(lo, hi) THEN RSub(hi, lo) ELSE RZero]

\* BoxcarSTF.discretize_t, from "tshift = ..." on
boxcar_shifted(stf, deltat, tref, times, amplitudes) ==
    sshift(times, amplitudes,
           RSub(RZero,
                RSub(RSum([i \in 1..Len(times) |-> RMul(amplitudes[i], times[i])]),
                     BoxcarSTF_centroid_time(stf, tref))),
           deltat)

\* amplitudes /= num.sum(amplitudes)
boxcar_normalized(stf, deltat, tref, times, integrals, total) ==
    boxcar_shifted(stf, deltat, tref, times,
                   [i \in 1..Len(times) |-> RDiv(integrals[i], total)])

boxcar_integrated(stf, deltat, tref, times, integrals) ==
    boxcar_normalized(stf, deltat, tref, times, integrals, RSum(integrals))

\* times = linspace(tmin, tmax, nt) and, for more than one sample, the
\* integrals of the boxcar over the bins t_edges around the samples
boxcar_sampled(stf, deltat, tref, tmin_stf, tmax_stf, tmin, nt) ==
    IF nt > 1
    THEN boxcar_integrated(
            stf, deltat, tref,
            [i \in 1..nt |-> RAdd(tmin, RMul(RInt(i - 1), deltat))],
            plf_integrate_boxcar(
                [i \in 1..(nt + 1) |->
                    RAdd(RSub(tmin, RMul(RHalf, deltat)),
                         RMul(RInt(i - 1), deltat))],
                tmin_stf, tmax_stf))
    ELSE boxcar_shifted(
            stf, deltat, tref,
            [i \in 1..nt |-> RAdd(tmin, RMul(RInt(i - 1), deltat))],
            [i \in 1..nt |-> ROne])

boxcar_rounded(stf, deltat, tref, tmin_stf, tmax_stf, tmin, tmax) ==
    boxcar_sampled(stf, deltat, tref, tmin_stf, tmax_stf, tmin,
                   RFloor(RAdd(RDiv(RSub(tmax, tmin), deltat), ROne)))

boxcar_span(stf, deltat, tref, tmin_stf, tmax_stf) ==
    boxcar_rounded(stf, deltat, tref, tmin_stf, tmax_stf,
                   RMul(RInt(RRound(RDiv(tmin_stf, deltat))), deltat),
                   RMul(RInt(RRound(RDiv(tmax_stf, deltat))), deltat))

BoxcarSTF_discretize_t(stf, deltat, tref) ==
    boxcar_span(
        stf, deltat, tref,
        RSub(tref, RMul(RMul(stf.duration, RAdd(stf.anchor, ROne)), RHalf)),
        RAdd(tref, RMul(RMul(stf.duration, RSub(ROne, stf.anchor)), RHalf)))

\* rounding of a time to the sampling grid, and num.linspace(t0, t1, n) for
\* t1 = t0 + (n - 1) * deltat
round_to_grid(t, deltat) == RMul(RInt(RRound(RDiv(t, deltat))), deltat)
linspace_step(t0, deltat, n) ==
    [i \in 1..n |-> RAdd(t0, RMul(RInt(i - 1), deltat))]
\* amplitudes /= num.sum(amplitudes)
normalized(amplitudes, total) ==
    [i \in 1..Len(amplitudes) |-> RDiv(amplitudes[i], total)]

\* util.plf_integrate_piecewise(x_edges, x, y): the definite integral of the
\* piecewise linear function through the nodes (x, y), constant outside
\* them, over each interval x_edges[i] .. x_edges[i+1].
\* plf_segment: the part of the integral over the segment xa .. xb below e.
plf_segment(e, xa, xb, ya, yb) ==
    IF ~RLt(xa, e) \/ xa = xb
    THEN RZero
    ELSE LET u == RMin(e, xb)
             yu == RAdd(ya, RDiv(RMul(RSub(yb, ya), RSub(u, xa)), RSub(xb, xa)))
         IN  RMul(RMul(RSub(u, xa), RAdd(ya, yu)), RHalf)

plf_integral(e, x, y) ==
    RAdd(RSum([k \in 1..(Len(x) - 1) |->
                plf_segment(e, x[k], x[k + 1], y[k], y[k + 1])]),
         RAdd(IF RLt(e, x[1]) THEN RMul(y[1], RSub(e, x[1])) ELSE RZero,
              IF RLt(x[Len(x)], e)
              THEN RMul(y[Len(x)], RSub(e, x[Len(x)])) ELSE RZero))

plf_integrate_piecewise(x_edges, x, y) ==
    [i \in 1..(Len(x_edges) - 1) |->
        RSub(plf_integral(x_edges[i + 1], x, y), plf_integral(x_edges[i], x, y))]

TriangularSTF_centroid_ratio(stf) ==
    LET ra == stf.peak_ratio
        rb == RSub(ROne, stf.peak_ratio)
    IN  RAdd(stf.peak_ratio,
             RDiv(RSub(RDiv(RMul(rb, rb), RInt(3)), RDiv(RMul(ra, ra), RInt(3))),
                  RAdd(ra, rb)))

TriangularSTF_tminmax_stf(stf, tref) ==
    LET ca == TriangularSTF_centroid_ratio(stf)
        cb == RSub(ROne, ca)
        tmin_stf == RSub(tref, RMul(RMul(ca, stf.duration), RAdd(stf.anchor, ROne)))
        tmax_stf == RAdd(tref, RMul(RMul(cb, stf.duration), RSub(ROne, stf.anchor)))
    IN  IF ~RLt(RZero, stf.anchor)
        THEN <<tmin_stf, RAdd(tmin_stf, stf.duration)>>
        ELSE <<RSub(tmax_stf, stf.duration), tmax_stf>>

\* TriangularSTF.discretize_t, from "if nt > 1" on
triangular_sampled(stf, deltat, tmin_stf, tmin, nt) ==
    [times |-> linspace_step(tmin, deltat, nt),
     amplitudes |->
        IF nt > 1
        THEN LET integrals ==
                    plf_integrate_piecewise(
                        linspace_step(RSub(tmin, RMul(RHalf, deltat)), deltat, nt + 1),
                        <<tmin_stf,
                          RAdd(tmin_stf, RMul(stf.duration, stf.peak_ratio)),
                          RAdd(tmin_stf, stf.duration)>>,
                        <<RZero, ROne, RZero>>)
             IN  normalized(integrals, RSum(integrals))
        ELSE <<ROne>>]

TriangularSTF_discretize_t(stf, deltat, tref) ==
    LET span == TriangularSTF_tminmax_stf(stf, tref)
        tmin == round_to_grid(span[1], deltat)
        tmax == round_to_grid(span[2], deltat)
    IN  triangular_sampled(stf, deltat, span[1], tmin,
                           RFloor(RAdd(RDiv(RSub(tmax, tmin), deltat), ROne)))

\* math.cos(math.pi * x) for 0 <= x <= 1, by Bhaskara's rational
\* approximation (exact at 0, 1/3, 1/2, 2/3 and 1; error below 0.002)
cos_pi(x) ==
    LET quarter(u) == RDiv(RSub(ROne, RMul(RInt(4), RMul(u, u))),
                           RAdd(ROne, RMul(u, u)))
    IN  IF RLt(RHalf, x)
        THEN RSub(RZero, quarter(RSub(ROne, x)))
        ELSE quarter(x)

\* HalfSinusoidSTF.discretize_t, from "if nt > 1" on
half_sinusoid_sampled(stf, deltat, tmin_stf, tmax_stf, tmin, nt) ==
    [times |-> linspace_step(tmin, deltat, nt),
     amplitudes |->
        IF nt > 1
        THEN LET edges == linspace_step(RSub(tmin, RMul(RHalf, deltat)), deltat, nt + 1)
                 fint == [i \in 1..(nt + 1) |->
                            RSub(RZero,
                                 cos_pi(RDiv(RSub(RMax(tmin_stf, RMin(tmax_stf, edges[i])),
                                                  tmin_stf),
                                             stf.duration)))]
                 diffs == [i \in 1..nt |-> RSub(fint[i + 1], fint[i])]
             IN  normalized(diffs, RSum(diffs))
        ELSE <<ROne>>]

HalfSinusoidSTF_discretize_t(stf, deltat, tref) ==
    LET tmin_stf == RSub(tref, RMul(RMul(stf.duration, RAdd(stf.anchor, ROne)), RHalf))
        tmax_stf == RAdd(tref, RMul(RMul(stf.duration, RSub(ROne, stf.anchor)), RHalf))
        tmin == round_to_grid(tmin_stf, deltat)
        tmax == round_to_grid(tmax_stf, deltat)
    IN  half_sinusoid_sampled(stf, deltat, tmin_stf, tmax_stf, tmin,
                              RFloor(RAdd(RDiv(RSub(tmax, tmin), deltat), ROne)))

discretize_t(stf, deltat, tref) ==
    CASE stf.cls = "STF" -> STF_discretize_t(stf, deltat, tref)
      [] stf.cls = "BoxcarSTF" -> BoxcarSTF_discretize_t(stf, deltat, tref)
      [] stf.cls = "TriangularSTF" -> TriangularSTF_discretize_t(stf, deltat, tref)
      [] stf.cls = "HalfSinusoidSTF" -> HalfSinusoidSTF_discretize_t(stf, deltat, tref)

---------------------------------------------------------------------------
(* Source models.  One record type holds the parameters of all classes;    *)
(* cls is the class, parameters a class does not have stay at the default. *)
(* Angles are integer degrees, positions integer metres, time integer      *)
(* seconds, magnitude is 30 * Mw (so that moments are exact, see below).   *)

SourceDefaults ==
    [cls |-> "Source", name |-> "", time |-> 0,
     stf |-> NoSTF, stf_mode |-> "post",
     lat |-> 0, lon |-> 0, north_shift |-> 0, east_shift |-> 0, depth |-> 0,
     magnitude |-> 180,
     strike |-> 0, dip |-> 90, rake |-> 0,
     amplitude |-> 1, azimuth |-> 0,
     mnn |-> 1, mee |-> 1, mdd |-> 1, mne |-> 0, mnd |-> 0, med |-> 0,
     strike1 |-> 0, dip1 |-> 90, rake1 |-> 0,
     strike2 |-> 0, dip2 |-> 90, rake2 |-> 0,
     delta_time |-> 0, delta_depth |-> 0, distance |-> 0, mix |-> RHalf,
     stf1 |-> NoSTF, stf2 |-> NoSTF,
     diameter |-> 1, sign |-> 1, npointsources |-> 360,
     fn |-> 0, fe |-> 0, fd |-> 0, pp |-> 1]

ExplosionSource == [SourceDefaults EXCEPT !.cls = "ExplosionSource"]
DCSource == [SourceDefaults EXCEPT !.cls = "DCSource"]
CLVDSource == [SourceDefaults EXCEPT !.cls = "CLVDSource"]
MTSource == [SourceDefaults EXCEPT !.cls = "MTSource"]
DoubleDCSource == [SourceDefaults EXCEPT !.cls = "DoubleDCSource"]
RingfaultSource == [SourceDefaults EXCEPT !.cls = "RingfaultSource", !.dip = 0]
SFSource == [SourceDefaults EXCEPT !.cls = "SFSource"]
PorePressurePointSource ==
    [SourceDefaults EXCEPT !.cls = "PorePressurePointSource"]

\* Classes derived from SourceWithMagnitude
WithMagnitude ==
    {"ExplosionSource", "DCSource", "DoubleDCSource", "RingfaultSource"}

\* A scale factor m * 10^(e/20): moments are powers of ten, amplitudes plain.
Factor(m, e) == [mantissa |-> m, exp20 |-> e]
FactorOne == Factor(1, 0)
FactorMul(a, b) == Factor(a.mantissa * b.mantissa, a.exp20 + b.exp20)

\* mt.magnitude_to_moment(Mw) = 10^(1.5 (Mw + 10.7)) * 1e-7, with Mw = m/30:
\* log10(M0) = (m + 181) / 20
magnitude_to_moment(magnitude) == Factor(1, magnitude + 181)

\* mt.moment_to_magnitude(M0) = log10(M0 * 1e7) / 1.5 - 10.7, as 30 * Mw
moment_to_magnitude(f) == f.exp20 - 181

\* SourceWithMagnitude.moment (property)
moment(s) == magnitude_to_moment(s.magnitude)

Source_effective_stf_pre(s) ==
    IF s.stf # NoSTF /\ s.stf_mode = "pre" THEN s.stf ELSE g_unit_pulse

\* effective_stf_post without the test of stf_mode
Source_effective_stf_post_any_mode(s) ==
    IF s.stf # NoSTF THEN s.stf ELSE g_unit_pulse

Source_effective_stf_post(s) ==
    IF s.stf # NoSTF /\ s.stf_mode = "post" THEN s.stf ELSE g_unit_pulse

\* No source class overrides effective_stf_pre / effective_stf_post.
effective_stf_pre(s) == Source_effective_stf_pre(s)
effective_stf_post(s) == Source_effective_stf_post(s)

Source_base_key(s) ==
    <<s.depth, s.lat, s.north_shift, s.lon, s.east_shift, s.cls>>
        \o stf_base_key(effective_stf_pre(s))

ExplosionSource_base_key(s) == Source_base_key(s)

\* DCSource.base_key with the origin time added to the key
DCSource_base_key_with_time(s) ==
    Source_base_key(s) \o <<s.strike, s.dip, s.rake, s.time>>

DCSource_base_key(s) == Source_base_key(s) \o <<s.strike, s.dip, s.rake>>

CLVDSource_base_key(s) == Source_base_key(s) \o <<s.azimuth, s.dip>>

m6_astuple(s) == <<s.mnn, s.mee, s.mdd, s.mne, s.mnd, s.med>>

MTSource_base_key(s) == Source_base_key(s) \o m6_astuple(s)

DoubleDCSource_base_key(s) ==
    Source_base_key(s) \o
        <<s.strike1, s.dip1, s.rake1, s.strike2, s.dip2, s.rake2,
          s.delta_time, s.delta_depth, s.azimuth, s.distance, s.mix>>

RingfaultSource_base_key(s) ==
    Source_base_key(s) \o <<s.strike, s.dip, s.diameter>>

SFSource_base_key(s) == Source_base_key(s) \o <<s.fn, s.fe, s.fd>>

PorePressurePointSource_base_key(s) == Source_base_key(s)

\* RectangularSource(DCSource): the parameters it adds.  nucleation_x,
\* nucleation_y and slip are optional (None or a rational).
RectangularSource ==
    [DCSource EXCEPT !.cls = "RectangularSource"]
        @@ [length |-> 0, width |-> 0, nucleation_x |-> None,
            nucleation_y |-> None, velocity |-> 3500, slip |-> None]

RectangularSource_base_key(s) ==
    DCSource_base_key(s) \o
        <<s.length, s.width, s.nucleation_x, s.nucleation_y, s.velocity, s.slip>>

\* source.base_key(), dispatched on the class
base_key(s) ==
    CASE s.cls = "ExplosionSource" -> ExplosionSource_base_key(s)
      [] s.cls = "DCSource" -> DCSource_base_key(s)
      [] s.cls = "CLVDSource" -> CLVDSource_base_key(s)
      [] s.cls = "MTSource" -> MTSource_base_key(s)
      [] s.cls = "DoubleDCSource" -> DoubleDCSource_base_key(s)
      [] s.cls = "RingfaultSource" -> RingfaultSource_base_key(s)
      [] s.cls = "SFSource" -> SFSource_base_key(s)
      [] s.cls = "PorePressurePointSource" ->
            PorePressurePointSource_base_key(s)
      [] s.cls = "RectangularSource" -> RectangularSource_base_key(s)

get_timeshift(s) == s.time

\* source.get_factor(), dispatched on the class
get_factor(s) ==
    CASE s.cls = "ExplosionSource" -> magnitude_to_moment(s.magnitude)
      [] s.cls = "DCSource" -> magnitude_to_moment(s.magnitude)
      [] s.cls = "CLVDSource" -> Factor(s.amplitude, 0)
      [] s.cls = "MTSource" -> FactorOne
      [] s.cls = "DoubleDCSource" -> moment(s)
      [] s.cls = "RingfaultSource" -> FactorMul(Factor(s.sign, 0), moment(s))
      [] s.cls = "SFSource" -> FactorOne
      [] s.cls = "PorePressurePointSource" -> Factor(s.pp, 0)
      [] s.cls = "RectangularSource" -> magnitude_to_moment(s.magnitude)

---------------------------------------------------------------------------
(* Discretization.  A discretized source lists its elementary               *)
(* contributions: times, positions and amplitude descriptors.  A moment     *)
(* tensor of the mt module is kept as the expression that builds it; an     *)
(* amplitude descriptor is such an expression m scaled by the rational a.   *)

MomentTensor(strike, dip, rake, scalar_moment) ==
    <<"MomentTensor", strike, dip, rake, scalar_moment>>

Scaled(m, amplitudes) == [k \in 1..Len(amplitudes) |-> [m |-> m, a |-> amplitudes[k]]]

\* math.cos / math.sin of an angle in degrees, for multiples of 90 degrees
cosd(a) == CASE a % 360 = 0 -> 1 [] a % 360 = 90 -> 0
             [] a % 360 = 180 -> -1 [] a % 360 = 270 -> 0
sind(a) == cosd(a + 270)

Source_dparams_base(s) ==
    [lat |-> s.lat, lon |-> s.lon,
     times |-> <<RZero>>,
     north_shifts |-> <<RInt(s.north_shift)>>,
     east_shifts |-> <<RInt(s.east_shift)>>,
     depths |-> <<RInt(s.depth)>>]

Source_dparams_base_repeated(s, times) ==
    [lat |-> s.lat, lon |-> s.lon,
     times |-> times,
     north_shifts |-> repeat(RInt(s.north_shift), Len(times)),
     east_shifts |-> repeat(RInt(s.east_shift), Len(times)),
     depths |-> repeat(RInt(s.depth), Len(times))]

Discretized(cls, dparams, weights) ==
    [cls |-> cls, lat |-> dparams.lat, lon |-> dparams.lon,
     times |-> dparams.times,
     north_shifts |-> dparams.north_shifts,
     east_shifts |-> dparams.east_shifts,
     depths |-> dparams.depths,
     weights |-> weights]

\* The elementary contributions of a point source, one per pre-stack stf
\* sample d = (times, amplitudes), each weighted with the mechanism m
point_discretized(cls, s, m, d) ==
    Discretized(cls, Source_dparams_base_repeated(s, d.times),
                Scaled(m, d.amplitudes))

ExplosionSource_discretize_basesource(s, store, target) ==
    point_discretized("DiscretizedExplosionSource", s, <<"m0">>,
                      discretize_t(effective_stf_pre(s), store.deltat, RZero))

DCSource_discretize_basesource(s, store, target) ==
    point_discretized("DiscretizedMTSource", s,
                      MomentTensor(s.strike, s.dip, s.rake, ROne),
                      discretize_t(effective_stf_pre(s), store.deltat, RZero))

CLVDSource_discretize_basesource(s, store, target) ==
    point_discretized("DiscretizedMTSource", s, <<"CLVD.m6", s.azimuth, s.dip>>,
                      discretize_t(effective_stf_pre(s), store.deltat, RZero))

MTSource_discretize_basesource(s, store, target) ==
    point_discretized("DiscretizedMTSource", s, <<"m6">> \o m6_astuple(s),
                      discretize_t(effective_stf_pre(s), store.deltat, RZero))

DoubleDCSource_effective_stf1_pre(s) ==
    IF s.stf1 # NoSTF THEN s.stf1 ELSE effective_stf_pre(s)

DoubleDCSource_effective_stf2_pre(s) ==
    IF s.stf2 # NoSTF THEN s.stf2 ELSE effective_stf_pre(s)

\* DoubleDCSource.discretize_basesource, from "nt1 = times1.size" on
DoubleDCSource_discretized(s, a1, a2, d1, d2) ==
    LET delta_north == RInt(cosd(s.azimuth))
        delta_east == RInt(sind(s.azimuth))
        nt1 == Len(d1.times)
        nt2 == Len(d2.times)
    IN  [cls |-> "DiscretizedMTSource", lat |-> s.lat, lon |-> s.lon,
         times |-> d1.times \o d2.times,
         north_shifts |->
            repeat(RSub(RInt(s.north_shift), RMul(delta_north, a1)), nt1) \o
            repeat(RAdd(RInt(s.north_shift), RMul(delta_north, a2)), nt2),
         east_shifts |->
            repeat(RSub(RInt(s.east_shift), RMul(delta_east, a1)), nt1) \o
            repeat(RAdd(RInt(s.east_shift), RMul(delta_east, a2)), nt2),
         depths |->
            repeat(RSub(RInt(s.depth), RMul(RInt(s.delta_depth), a1)), nt1) \o
            repeat(RAdd(RInt(s.depth), RMul(RInt(s.delta_depth), a2)), nt2),
         weights |->
            Scaled(MomentTensor(s.strike1, s.dip1, s.rake1, a1), d1.amplitudes)
            \o Scaled(MomentTensor(s.strike2, s.dip2, s.rake2, a2), d2.amplitudes)]

DoubleDCSource_discretize_basesource(s, store, target) ==
    DoubleDCSource_discretized(
        s, RSub(ROne, s.mix), s.mix,
        discretize_t(DoubleDCSource_effective_stf1_pre(s), store.deltat,
                     RSub(RZero, RMul(RInt(s.delta_time), RSub(ROne, s.mix)))),
        discretize_t(DoubleDCSource_effective_stf2_pre(s), store.deltat,
                     RMul(RInt(s.delta_time), s.mix)))

\* mt.euler_to_matrix(dip, strike, 0) applied to a point: the identity for
\* a ring in the horizontal plane with strike 0, the case the model holds.
ring_rotate(dip, strike, p) == CASE dip = 0 /\ strike = 0 -> p

\* points[i] of RingfaultSource.discretize_basesource; phi[i] is
\* 2 pi (i - 1) / n, here as an angle in degrees
ring_point(s, n, i) ==
    LET phi == ((i - 1) * 360) \div n
        p == ring_rotate(s.dip, s.strike,
                <<RMul(RInt(cosd(phi)), RMul(RHalf, RInt(s.diameter))),
                  RMul(RInt(sind(phi)), RMul(RHalf, RInt(s.diameter))),
                  RZero>>)
    IN  <<RAdd(p[1], RInt(s.north_shift)),
          RAdd(p[2], RInt(s.east_shift)),
          RAdd(p[3], RInt(s.depth))>>

\* RingfaultSource.discretize_basesource, from "nt = times.size" on
RingfaultSource_discretized(s, n, points, m6s, d) ==
    [cls |-> "DiscretizedMTSource", lat |-> s.lat, lon |-> s.lon,
     times |-> tile(d.times, n),
     north_shifts |-> repeat_each([i \in 1..n |-> points[i][1]], Len(d.times)),
     east_shifts |-> repeat_each([i \in 1..n |-> points[i][2]], Len(d.times)),
     depths |-> repeat_each([i \in 1..n |-> points[i][3]], Len(d.times)),
     weights |->
        [j \in 1..(n * Len(d.times)) |->
            [m |-> m6s[((j - 1) \div Len(d.times)) + 1],
             a |-> d.amplitudes[((j - 1) % Len(d.amplitudes)) + 1]]]]

RingfaultSource_discretize_basesource(s, store, target) ==
    RingfaultSource_discretized(
        s, s.npointsources,
        [i \in 1..s.npointsources |-> ring_point(s, s.npointsources, i)],
        [i \in 1..s.npointsources |->
            <<"ring.m6", i, s.npointsources, s.strike, s.dip>>],
        discretize_t(effective_stf_pre(s), store.deltat, RZero))

SFSource_discretize_basesource(s, store, target) ==
    point_discretized("DiscretizedSFSource", s, <<"forces", s.fn, s.fe, s.fd>>,
                      discretize_t(effective_stf_pre(s), store.deltat, RZero))

PorePressurePointSource_discretize_basesource(s, store, target) ==
    Discretized("DiscretizedPorePressureSource",
                Source_dparams_base(s), Scaled(<<"pp">>, <<ROne>>))

\* store.config.deltas: the spacings of the store's grid in metres
config_deltas(config) == <<1000, 1000>>

\* store.config.get_shear_moduli(lat, lon, points, interpolation) for one
\* point, in an earth model whose shear modulus is 1 at the surface and 3
\* at 1000 m depth: the value at the nearer node, or the linear interpolant
get_shear_moduli(config, depth, interpolation) ==
    CASE interpolation = "nearest_neighbor" ->
            IF RLt(depth, RInt(500)) THEN ROne ELSE RInt(3)
      [] interpolation = "multilinear" ->
            RAdd(ROne, RDiv(RMax(RZero, RMin(RInt(1000), depth)), RInt(500)))

\* mt.euler_to_matrix(dip, strike, 0) transposed and applied to the point
\* (x, y, 0) of the fault plane, x along strike and y down dip
rect_rotate(dip, strike, x, y) ==
    <<RSub(RMul(RInt(cosd(strike)), x),
           RMul(RInt(cosd(dip) * sind(strike)), y)),
      RAdd(RMul(RInt(sind(strike)), x),
           RMul(RInt(cosd(dip) * cosd(strike)), y)),
      RMul(RInt(sind(dip)), y)>>

\* num.sqrt(dist_x**2 + dist_y**2) where one of the two is zero
hypot(dist_x, dist_y) ==
    CASE dist_y = RZero -> dist_x
      [] dist_x = RZero -> dist_y

\* |nucleation - x|, or zero without nucleation
nucleation_dist(nucleation, x) ==
    IF nucleation = None THEN RZero
    ELSE IF RLt(nucleation, x) THEN RSub(x, nucleation) ELSE RSub(nucleation, x)

\* num.min of a list of numbers
RECURSIVE num_min(_)
num_min(xs) ==
    IF Len(xs) = 1 THEN xs[1]
    ELSE IF xs[1] < num_min(Tail(xs)) THEN xs[1] ELSE num_min(Tail(xs))

\* nl (nw) of discretize_rect_source: 2 * ceil(l / mindeltagf) + 1
rect_count(l, mindeltagf) == 2 * RCeil(RDiv(RInt(l), mindeltagf)) + 1

\* xl (xw): linspace(-0.5 * (l - dl), 0.5 * (l - dl), nl), whose step is dl
rect_axis(l, n) ==
    linspace_step(RMul(Rat(-1, 2), RSub(RInt(l), RDiv(RInt(l), RInt(n)))),
                  RDiv(RInt(l), RInt(n)), n)

\* discretize_rect_source from "points = num.empty" on: xl and xw are the
\* axes of the grid of subpoints, d the samples of the stf
rect_sampled(strike, dip, velocity, nucleation_x, nucleation_y, xl, xw, d, dl, dw) ==
    [points |->
        [j \in 1..(Len(xl) * Len(xw) * Len(d.times)) |->
            rect_rotate(dip, strike,
                        xl[(((j - 1) \div Len(d.times)) % Len(xl)) + 1],
                        xw[(((j - 1) \div Len(d.times)) \div Len(xl)) + 1])],
     times |->
        [j \in 1..(Len(xl) * Len(xw) * Len(d.times)) |->
            RAdd(RDiv(hypot(
                        nucleation_dist(
                            nucleation_x,
                            xl[(((j - 1) \div Len(d.times)) % Len(xl)) + 1]),
                        nucleation_dist(
                            nucleation_y,
                            xw[(((j - 1) \div Len(d.times)) \div Len(xl)) + 1])),
                      RInt(velocity)),
                 d.times[((j - 1) % Len(d.times)) + 1])],
     amplitudes |->
        [j \in 1..(Len(xl) * Len(xw) * Len(d.times)) |->
            d.amplitudes[((j - 1) % Len(d.times)) + 1]],
     dl |-> dl, dw |-> dw]

rect_gridded(deltat, strike, dip, length, width, velocity, stf, nucleation_x, nucleation_y, tref, nl, nw) ==
    rect_sampled(strike, dip, velocity, nucleation_x, nucleation_y,
                 rect_axis(length, nl), rect_axis(width, nw),
                 discretize_t(stf, deltat, tref),
                 RDiv(RInt(length), RInt(nl)), RDiv(RInt(width), RInt(nw)))

\* discretize_rect_source; mindeltagf is the smaller of the smallest grid
\* spacing and deltat * velocity
discretize_rect_source(deltas, deltat, strike, dip, length, width, velocity, stf, nucleation_x, nucleation_y, tref) ==
    rect_gridded(
        deltat, strike, dip, length, width, velocity,
        IF stf = NoSTF THEN g_unit_pulse ELSE stf,
        nucleation_x, nucleation_y, tref,
        rect_count(length,
                   RMin(RInt(num_min(deltas)), RMul(deltat, RInt(velocity)))),
        rect_count(width,
                   RMin(RInt(num_min(deltas)), RMul(deltat, RInt(velocity)))))

\* RectangularSource.discretize_basesource once the fault plane has been
\* discretized to r: without slip every elementary contribution carries the
\* moment tensor of scalar moment 1/n; with slip the amplitudes are
\* multiplied by dl * dw * shear_moduli * slip
RectangularSource_discretized(s, store, target, r) ==
    [cls |-> "DiscretizedMTSource", lat |-> s.lat, lon |-> s.lon,
     times |-> r.times,
     north_shifts |->
        [j \in DOMAIN r.points |-> RAdd(RInt(s.north_shift), r.points[j][1])],
     east_shifts |->
        [j \in DOMAIN r.points |-> RAdd(RInt(s.east_shift), r.points[j][2])],
     depths |->
        [j \in DOMAIN r.points |-> RAdd(RInt(s.depth), r.points[j][3])],
     weights |->
        IF s.slip # None
        THEN [j \in DOMAIN r.times |->
                [m |-> MomentTensor(s.strike, s.dip, s.rake, ROne),
                 a |-> RMul(r.amplitudes[j],
                            RMul(RMul(r.dl, r.dw),
                                 RMul(get_shear_moduli(
                                        store,
                                        RAdd(RInt(s.depth), r.points[j][3]),
                                        target.interpolation),
                                      s.slip)))]]
        ELSE Scaled(MomentTensor(s.strike, s.dip, s.rake,
                                 Rat(1, Len(r.times))),
                    r.amplitudes)]

RectangularSource_discretize_basesource(s, store, target) ==
    RectangularSource_discretized(
        s, store, target,
        discretize_rect_source(
            config_deltas(store), store.deltat, s.strike, s.dip, s.length,
            s.width, s.velocity, effective_stf_pre(s),
            IF s.nucleation_x # None
            THEN RMul(RMul(s.nucleation_x, RHalf), RInt(s.length)) ELSE None,
            IF s.nucleation_y # None
            THEN RMul(RMul(s.nucleation_y, RHalf), RInt(s.width)) ELSE None,
            RZero))

\* the source object after discretize_basesource(store, target) has run:
\* "self.moment = 1.0" of RectangularSource sets the magnitude
after_discretize_basesource(s) ==
    IF s.cls = "RectangularSource" /\ s.slip # None
    THEN [s EXCEPT !.magnitude = moment_to_magnitude(FactorOne)]
    ELSE s

\* source.discretize_basesource(store, target), dispatched on the class
discretize_basesource(s, store, target) ==
    CASE s.cls = "ExplosionSource" ->
            ExplosionSource_discretize_basesource(s, store, target)
      [] s.cls = "DCSource" -> DCSource_discretize_basesource(s, store, target)
      [] s.cls = "CLVDSource" ->
            CLVDSource_discretize_basesource(s, store, target)
      [] s.cls = "MTSource" -> MTSource_discretize_basesource(s, store, target)
      [] s.cls = "DoubleDCSource" ->
            DoubleDCSource_discretize_basesource(s, store, target)
      [] s.cls = "RingfaultSource" ->
            RingfaultSource_discretize_basesource(s, store, target)
      [] s.cls = "SFSource" -> SFSource_discretize_basesource(s, store, target)
      [] s.cls = "PorePressurePointSource" ->
            PorePressurePointSource_discretize_basesource(s, store, target)
      [] s.cls = "RectangularSource" ->
            RectangularSource_discretize_basesource(s, store, target)

---------------------------------------------------------------------------
(* The file system the engine searches, and GF stores.                     *)

\* os.listdir of a directory given in store_superdirs; a directory that
\* does not exist has no entry here (os.path.exists is false)
Listing ==
    [d \in {"/gf1", "/gf2"} |->
        IF d = "/gf1" THEN <<"/gf1/a", "/gf1/notes", "/gf1/b">>
        ELSE <<"/gf2/a">>]

\* store.Store(store_dir).config of the store directories on disk
StoreConfigs ==
    [d \in {"/gf1/a", "/gf1/b", "/gf2/a", "/x/c"} |->
        CASE d = "/gf1/a" -> [id |-> "A", deltat |-> RHalf, distance_max |-> 2000,
                             component_scheme |-> "elastic10"]
          [] d = "/gf1/b" -> [id |-> "B", deltat |-> RHalf, distance_max |-> 2000,
                             component_scheme |-> "elastic10"]
          [] d = "/gf2/a" -> [id |-> "A", deltat |-> ROne, distance_max |-> 2000,
                             component_scheme |-> "elastic10"]
          [] d = "/x/c" -> [id |-> "C", deltat |-> RHalf, distance_max |-> 2000,
                           component_scheme |-> "poroelastic10"]]

StoreIds == {"A", "B", "C", "Z"}

\* LocalEngine._get_store_id
get_store_id(store_dir) == StoreConfigs[store_dir].id

\* LocalEngine._looks_like_store_dir: a directory with index, traces, config
looks_like_store_dir(store_dir) == store_dir \in DOMAIN StoreConfigs

RECURSIVE listed_stores(_)
listed_stores(entries) ==
    IF entries = <<>> THEN <<>>
    ELSE (IF looks_like_store_dir(Head(entries)) THEN <<Head(entries)>> ELSE <<>>)
            \o listed_stores(Tail(entries))

RECURSIVE superdir_stores(_)
superdir_stores(superdirs) ==
    IF superdirs = <<>> THEN <<>>
    ELSE (IF Head(superdirs) \in DOMAIN Listing
          THEN listed_stores(Listing[Head(superdirs)]) ELSE <<>>)
            \o superdir_stores(Tail(superdirs))

\* LocalEngine.iter_store_dirs, as the sequence it yields
iter_store_dirs(eng) == superdir_stores(eng.store_superdirs) \o eng.store_dirs

\* An empty dict, and d[k] = v
EmptyDict == [k \in {} |-> ""]
DictSet(d, k, v) == [x \in DOMAIN d \cup {k} |-> IF x = k THEN v ELSE d[x]]

\* LocalEngine.__init__
LocalEngine(store_superdirs, store_dirs, default_store_id) ==
    [store_superdirs |-> store_superdirs,
     store_dirs |-> store_dirs,
     default_store_id |-> default_store_id,
     id_to_store_dir |-> EmptyDict,
     open_stores |-> [k \in {} |-> [dir |-> "", serial |-> 0]],
     effective_default_store_id |-> "None",
     n_stores |-> 0]

\* What a method hands back: the engine after the call, "ok" or the class
\* of the exception raised, and the value returned.
NoValue == [dir |-> "", serial |-> 0, id |-> "None"]
Outcome(eng, kind, value) == [eng |-> eng, kind |-> kind, value |-> value]

RECURSIVE scan_from(_, _)
scan_from(eng, dirs) ==
    IF dirs = <<>> THEN Outcome(eng, "ok", NoValue)
    ELSE LET store_dir == Head(dirs)
             store_id == get_store_id(store_dir)
         IN  IF store_id \notin DOMAIN eng.id_to_store_dir
             THEN scan_from(
                    [eng EXCEPT !.id_to_store_dir = DictSet(@, store_id, store_dir)],
                    Tail(dirs))
             ELSE IF store_dir # eng.id_to_store_dir[store_id]
                  THEN Outcome(eng, "DuplicateStoreId",
                               [NoValue EXCEPT !.id = store_id])
                  ELSE scan_from(eng, Tail(dirs))

\* LocalEngine._scan_stores
scan_stores(eng) == scan_from(eng, iter_store_dirs(eng))

\* LocalEngine.get_store_dir, after the scan (if one was needed)
get_store_dir_scanned(scanned, store_id) ==
    IF scanned.kind # "ok" THEN scanned
    ELSE IF store_id \notin DOMAIN scanned.eng.id_to_store_dir
    THEN Outcome(scanned.eng, "NoSuchStore", [NoValue EXCEPT !.id = store_id])
    ELSE Outcome(scanned.eng, "ok",
                 [dir |-> scanned.eng.id_to_store_dir[store_id], serial |-> 0,
                  id |-> store_id])

\* LocalEngine.get_store_dir
get_store_dir(eng, store_id) ==
    get_store_dir_scanned(
        IF store_id \notin DOMAIN eng.id_to_store_dir
        THEN scan_stores(eng)
        ELSE Outcome(eng, "ok", NoValue),
        store_id)

\* LocalEngine.get_store_ids; the value returned is the sorted list of the
\* keys of _id_to_store_dir, read from the outcome's engine
get_store_ids(eng) == scan_stores(eng)

\* effective_default_store_id testing len(store_ids) >= 1 instead of == 1
default_from_store_ids_any(got) ==
    IF got.kind # "ok" THEN got
    ELSE IF Cardinality(DOMAIN got.eng.id_to_store_dir) >= 1
    THEN Outcome(
            [got.eng EXCEPT !.effective_default_store_id =
                CHOOSE x \in DOMAIN got.eng.id_to_store_dir : TRUE],
            "ok",
            [NoValue EXCEPT !.id =
                CHOOSE x \in DOMAIN got.eng.id_to_store_dir : TRUE])
    ELSE Outcome(got.eng, "NoDefaultStoreSet", NoValue)

\* LocalEngine.effective_default_store_id with no default_store_id, after
\* get_store_ids (called twice by the code, with the same result)
default_from_store_ids(got) ==
    IF got.kind # "ok" THEN got
    ELSE IF Cardinality(DOMAIN got.eng.id_to_store_dir) = 1
    THEN Outcome(
            [got.eng EXCEPT !.effective_default_store_id =
                CHOOSE x \in DOMAIN got.eng.id_to_store_dir : TRUE],
            "ok",
            [NoValue EXCEPT !.id =
                CHOOSE x \in DOMAIN got.eng.id_to_store_dir : TRUE])
    ELSE Outcome(got.eng, "NoDefaultStoreSet", NoValue)

\* LocalEngine.effective_default_store_id
effective_default_store_id(eng) ==
    IF eng.effective_default_store_id = "None"
    THEN IF eng.default_store_id = "None"
         THEN default_from_store_ids(get_store_ids(eng))
         ELSE Outcome(
                [eng EXCEPT !.effective_default_store_id = eng.default_store_id],
                "ok", [NoValue EXCEPT !.id = eng.default_store_id])
    ELSE Outcome(eng, "ok", [NoValue EXCEPT !.id = eng.effective_default_store_id])

\* get_store: self._open_stores[store_id] = store.Store(store_dir), once
\* get_store_dir has answered; the new Store object gets the next serial
open_store(found, store_id) ==
    IF found.kind # "ok" THEN found
    ELSE Outcome(
            [found.eng EXCEPT
                !.open_stores =
                    DictSet(@, store_id,
                            [dir |-> found.value.dir,
                             serial |-> found.eng.n_stores + 1]),
                !.n_stores = @ + 1],
            "ok",
            [dir |-> found.value.dir, serial |-> found.eng.n_stores + 1,
             id |-> store_id])

\* get_store without the test "store_id not in self._open_stores"
get_store_by_id_always_opens(eng, store_id) ==
    open_store(get_store_dir(eng, store_id), store_id)

\* The body of get_store once the store id is known
get_store_by_id(eng, store_id) ==
    IF store_id \notin DOMAIN eng.open_stores
    THEN open_store(get_store_dir(eng, store_id), store_id)
    ELSE Outcome(eng, "ok",
                 [dir |-> eng.open_stores[store_id].dir,
                  serial |-> eng.open_stores[store_id].serial,
                  id |-> store_id])

get_store_of_default(dflt) ==
    IF dflt.kind # "ok" THEN dflt
    ELSE get_store_by_id(dflt.eng, dflt.value.id)

\* LocalEngine.get_store; store_id "None" is the call without a store id
get_store(eng, store_id) ==
    IF store_id = "None"
    THEN get_store_of_default(effective_default_store_id(eng))
    ELSE get_store_by_id(eng, store_id)

---------------------------------------------------------------------------
(* Values of the variables a specification does not use.                   *)

NoError == [kind |-> "None", context |-> <<>>]
NoCall == [op |-> "None", arg |-> "None", kind |-> "None", value |-> NoValue,
           open_unchanged |-> TRUE]
NoHistory ==
    [ncalls |-> 0,
     built |-> [i \in StoreIds |-> 0],
     returned |-> [i \in StoreIds |-> {}],
     nreturned |-> [i \in StoreIds |-> 0]]

ProcessUnused ==
    /\ heap = <<>>
    /\ request = [sources |-> <<>>, targets |-> <<>>]
    /\ pc = "unused"
    /\ work = <<>>
    /\ pending = {}
    /\ returned = {}
    /\ results_list = <<>>
    /\ dsource_cache = <<>>
    /\ counters = <<>>
    /\ err = NoError
    /\ stats = <<>>

SourceUnused ==
    /\ src_a = <<>>
    /\ src_b = <<>>
    /\ fn_out = <<>>
    /\ call = <<>>
    /\ class_keys = <<>>

---------------------------------------------------------------------------
(* SpecEngine: store lookups on one engine, in any sequence.               *)

MaxCalls == 3

EngineConfigs ==
    {LocalEngine(sup, dirs, dflt) :
        sup \in {<<>>, <<"/gf1">>, <<"/gf1", "/gf2">>, <<"/gf2", "/gf1">>,
                 <<"/missing", "/gf1">>},
        dirs \in {<<>>, <<"/gf1/a">>, <<"/x/c">>, <<"/gf2/a">>,
                  <<"/x/c", "/x/c">>},
        dflt \in {"None", "A", "B", "Z"}}

InitEngine ==
    /\ engine \in EngineConfigs
    /\ last_call = NoCall
    /\ history = NoHistory
    /\ ProcessUnused
    /\ SourceUnused

Record(op, arg, out) ==
    /\ engine' = out.eng
    /\ last_call' = [op |-> op, arg |-> arg, kind |-> out.kind,
                     value |-> out.value,
                     open_unchanged |-> (out.eng.open_stores = engine.open_stores)]
    /\ UNCHANGED <<process_vars, source_vars>>

GetStoreDir(store_id) ==
    /\ history.ncalls < MaxCalls
    /\ Record("get_store_dir", store_id, get_store_dir(engine, store_id))
    /\ history' = [history EXCEPT !.ncalls = @ + 1]

GetStoreIds ==
    /\ history.ncalls < MaxCalls
    /\ Record("get_store_ids", "None", get_store_ids(engine))
    /\ history' = [history EXCEPT !.ncalls = @ + 1]

GetStoreReturn(store_id, out) ==
    /\ Record("get_store", store_id, out)
    /\ history' =
        IF out.kind = "ok"
        THEN [history EXCEPT
                !.ncalls = @ + 1,
                !.built[out.value.id] = @ + (out.eng.n_stores - engine.n_stores),
                !.returned[out.value.id] =
                    @ \cup {[dir |-> out.value.dir, serial |-> out.value.serial]},
                !.nreturned[out.value.id] = @ + 1]
        ELSE [history EXCEPT !.ncalls = @ + 1]

GetStore(store_id) ==
    /\ history.ncalls < MaxCalls
    /\ GetStoreReturn(store_id, get_store(engine, store_id))

NextEngine ==
    \/ \E store_id \in StoreIds : GetStoreDir(store_id)
    \/ GetStoreIds
    \/ \E store_id \in StoreIds \cup {"None"} : GetStore(store_id)

SpecEngine == InitEngine /\ [][NextEngine]_vars

---------------------------------------------------------------------------
(* Properties of the store lookup (SpecEngine).                            *)

Image(f) == {f[i] : i \in DOMAIN f}

\* The store directories on the engine's search path, and their ids
SearchPath(eng) == Image(iter_store_dirs(eng))
FoundIds(eng) == {get_store_id(d) : d \in SearchPath(eng)}
DirsOf(eng, id) == {d \in SearchPath(eng) : get_store_id(d) = id}
Duplicated(eng, id) == Cardinality(DirsOf(eng, id)) >= 2
HasDuplicate(eng) == \E id \in StoreIds : Duplicated(eng, id)

\* C7: over any sequence of get_store calls the Store serving a store id is
\* constructed at most once, every call for that id returns that same
\* handle, and the cached handle is never replaced or removed.
C7_StoreOpenedOnce ==
    \A id \in StoreIds :
        /\ history.built[id] <= 1
        /\ Cardinality(history.returned[id]) <= 1
        /\ history.nreturned[id] > 0 =>
            /\ id \in DOMAIN engine.open_stores
            /\ history.returned[id] = {engine.open_stores[id]}
        /\ id \in DOMAIN engine.open_stores => history.built[id] = 1

\* C7 witness: a store id served twice by the one Store built for it
C7_Witness ==
    \E id \in StoreIds : history.nreturned[id] >= 2 /\ history.built[id] = 1

\* C8 (as claimed): looking up an id held by two different directories
\* raises DuplicateStoreId on the first and on every later lookup, and the
\* same directory listed twice is not a duplicate.
C8_DuplicateAlwaysRaises ==
    /\ (/\ last_call.op \in {"get_store_dir", "get_store"}
        /\ last_call.arg # "None"
        /\ Duplicated(engine, last_call.arg))
            => last_call.kind = "DuplicateStoreId"
    /\ last_call.kind = "DuplicateStoreId" => HasDuplicate(engine)

---------------------------------------------------------------------------
(* SpecSource: the source classes as functions of their parameters.  Two   *)
(* sources are drawn from a pool; each action applies one method to both.  *)

EngineUnused ==
    /\ engine = LocalEngine(<<>>, <<>>, "None")
    /\ last_call = NoCall
    /\ history = NoHistory

\* stf objects a caller may attach to a source
UserBoxcar ==
    [cls |-> "BoxcarSTF", oid |-> "boxcar", duration |-> RInt(2), anchor |-> RZero]
UserBoxcarLate ==
    [cls |-> "BoxcarSTF", oid |-> "boxcar_late", duration |-> RInt(1), anchor |-> ROne]
UserPulse == [cls |-> "STF", oid |-> "pulse", duration |-> RZero, anchor |-> RZero]

UserSTFs == {NoSTF, UserBoxcar, UserBoxcarLate, UserPulse}

SourcePool ==
    {[DCSource EXCEPT !.stf = f, !.stf_mode = m] :
        f \in UserSTFs, m \in {"pre", "post"}}
    \cup {[DCSource EXCEPT !.time = t, !.magnitude = g, !.strike = k] :
        t \in {0, 5}, g \in {180, 210}, k \in {0, 90}}
    \cup {[ExplosionSource EXCEPT !.depth = z, !.north_shift = n] :
        z \in {0, 1000}, n \in {0, 100}}
    \cup {[CLVDSource EXCEPT !.azimuth = a, !.amplitude = c] :
        a \in {0, 90}, c \in {1, 2}}
    \cup {[MTSource EXCEPT !.mnn = a, !.med = c, !.lat = l] :
        a \in {1, 2}, c \in {0, 1}, l \in {0, 10}}
    \cup {[DoubleDCSource EXCEPT !.stf1 = f, !.distance = d, !.delta_time = t] :
        f \in {NoSTF, UserBoxcar}, d \in {0, 1000}, t \in {0, 2}}
    \cup {[RingfaultSource EXCEPT !.npointsources = n, !.diameter = d, !.sign = g] :
        n \in {1, 2, 4}, d \in {100, 200}, g \in {1, -1}}
    \cup {[SFSource EXCEPT !.fn = a, !.east_shift = e] :
        a \in {0, 1}, e \in {0, 50}}
    \cup {[PorePressurePointSource EXCEPT !.pp = a, !.stf = f, !.stf_mode = "pre"] :
        a \in {1, 2}, f \in {NoSTF, UserBoxcar}}

\* the stores a source is discretized for (store.config.deltat)
SourceStores == {StoreConfigs["/gf1/a"], StoreConfigs["/gf2/a"]}

InitSource ==
    /\ src_a \in SourcePool
    /\ src_b \in SourcePool
    /\ fn_out = [op |-> "None"]
    /\ call = <<>>
    /\ class_keys = <<>>
    /\ EngineUnused
    /\ ProcessUnused

BaseKey ==
    /\ fn_out' = [op |-> "base_key",
                  key_a |-> base_key(src_a), key_b |-> base_key(src_b)]
    /\ UNCHANGED <<src_a, src_b, call, class_keys, engine_vars, process_vars>>

DiscretizeBasesource(store) ==
    /\ fn_out' = [op |-> "discretize_basesource",
                  key_a |-> base_key(src_a), key_b |-> base_key(src_b),
                  ds_a |-> discretize_basesource(src_a, store, "None"),
                  ds_b |-> discretize_basesource(src_b, store, "None")]
    /\ UNCHANGED <<src_a, src_b, call, class_keys, engine_vars, process_vars>>

EffectiveStf ==
    /\ fn_out' = [op |-> "effective_stf",
                  pre |-> effective_stf_pre(src_a),
                  post |-> effective_stf_post(src_a)]
    /\ UNCHANGED <<src_a, src_b, call, class_keys, engine_vars, process_vars>>

NextSource ==
    \/ BaseKey
    \/ \E store \in SourceStores : DiscretizeBasesource(store)
    \/ EffectiveStf

SpecSource == InitSource /\ [][NextSource]_vars

---------------------------------------------------------------------------
(* Properties of the source classes (SpecSource).                          *)

\* C4: two sources of the same class with equal base_key() are discretized
\* to the same discretized source (same number of contributions, positions,
\* times and amplitudes) for the same store and target.
C4_BaseKeyCapturesDiscretization ==
    (/\ fn_out.op = "discretize_basesource"
     /\ src_a.cls = src_b.cls
     /\ fn_out.key_a = fn_out.key_b)
        => fn_out.ds_a = fn_out.ds_b

---------------------------------------------------------------------------
(* Targets.  A numeric attribute that is None in Python is the empty       *)
(* tuple; a channel code is the sequence of its (upper case) characters.   *)

Target ==
    [oid |-> "", quantity |-> "None", codes |-> <<"", "STA", "", <<"Z">>>>,
     elevation |-> 0, store_id |-> "None", sample_rate |-> None,
     interpolation |-> "nearest_neighbor", optimization |-> "enable",
     tmin |-> None, tmax |-> None, azimuth |-> None, dip |-> None,
     lat |-> 0, lon |-> 0, north_shift |-> 0, east_shift |-> 0, depth |-> 0]

Target_base_key(t) ==
    <<t.store_id, t.sample_rate, t.interpolation, t.optimization,
      t.tmin, t.tmax, t.elevation, t.depth, t.north_shift, t.east_shift,
      t.lat, t.lon>>

\* What a method of a target or a rule hands back: "ok" and a value, or the
\* class of the exception raised
Ok(value) == [kind |-> "ok", value |-> value]
Raised(kind) == [kind |-> kind, value |-> None]

\* Target.effective_quantity
effective_quantity(t) ==
    LET cha == t.codes[4]
    IN  IF t.quantity # "None" THEN Ok(t.quantity)
        ELSE IF Len(cha) = 3 /\ cha[2] \in {"H", "L"} THEN Ok("velocity")
        ELSE IF Len(cha) = 3 /\ cha[2] = "N" THEN Ok("acceleration")
        ELSE IF Len(cha) = 3 /\ cha[2] = "D" THEN Ok("pressure")
        ELSE IF Len(cha) = 3 /\ cha[2] = "A" THEN Ok("tilt")
        ELSE IF Len(cha) = 2 /\ cha[1] = "U" THEN Ok("displacement")
        ELSE IF Len(cha) = 2 /\ cha[1] = "V" THEN Ok("velocity")
        ELSE IF Len(cha) = 1 /\ cha[1] \in {"N", "E", "Z"} THEN Ok("displacement")
        ELSE IF Len(cha) = 1 /\ cha[1] = "P" THEN Ok("pressure")
        ELSE Raised("BadRequest")

\* Target.component_code
component_code(t) ==
    IF t.codes[4] # <<>> THEN t.codes[4][Len(t.codes[4])] ELSE " "

\* Target.effective_azimuth, in degrees
effective_azimuth(t) ==
    IF t.azimuth # None THEN Ok(t.azimuth[1])
    ELSE IF component_code(t) = "N" THEN Ok(0)
    ELSE IF component_code(t) = "E" THEN Ok(90)
    ELSE IF component_code(t) = "Z" THEN Ok(0)
    ELSE Raised("BadRequest")

\* Target.effective_dip, in degrees
effective_dip(t) ==
    IF t.dip # None THEN Ok(t.dip[1])
    ELSE IF component_code(t) = "N" THEN Ok(0)
    ELSE IF component_code(t) = "E" THEN Ok(0)
    ELSE IF component_code(t) = "Z" THEN Ok(-90)
    ELSE Raised("BadRequest")

\* Target.get_sin_cos_factors
get_sin_cos_factors(t) ==
    IF effective_azimuth(t).kind # "ok" THEN effective_azimuth(t)
    ELSE IF effective_dip(t).kind # "ok" THEN effective_dip(t)
    ELSE Ok([sa |-> sind(effective_azimuth(t).value),
             ca |-> cosd(effective_azimuth(t).value),
             sd |-> sind(effective_dip(t).value),
             cd |-> cosd(effective_dip(t).value)])

Target_get_factor(t) == FactorOne

---------------------------------------------------------------------------
(* Channel rules.                                                          *)

VectorRule(quantity, differentiate) ==
    [cls |-> "VectorRule", quantity |-> quantity, differentiate |-> differentiate]
HorizontalVectorRule(quantity) ==
    [cls |-> "HorizontalVectorRule", quantity |-> quantity, differentiate |-> 0]
ScalarRule(quantity) ==
    [cls |-> "ScalarRule", quantity |-> quantity, differentiate |-> 0]

channel_rules ==
    [q \in {"displacement", "velocity", "pore_pressure", "vertical_tilt",
            "darcy_velocity"} |->
        CASE q = "displacement" -> <<VectorRule("displacement", 0)>>
          [] q = "velocity" -> <<VectorRule("displacement", 1)>>
          [] q = "pore_pressure" -> <<ScalarRule("pore_pressure")>>
          [] q = "vertical_tilt" -> <<HorizontalVectorRule("vertical_tilt")>>
          [] q = "darcy_velocity" -> <<VectorRule("darcy_velocity", 0)>>]

\* The stored components a rule combines, each with its weight: the terms
\* of apply_, and with the weights dropped the tuple of required_components
VectorRule_terms(rule, f) ==
    (IF f.ca * f.cd # 0 THEN <<<<rule.quantity, "n", f.ca * f.cd>>>> ELSE <<>>)
    \o (IF f.sa * f.cd # 0 THEN <<<<rule.quantity, "e", f.sa * f.cd>>>> ELSE <<>>)
    \o (IF f.sd # 0 THEN <<<<rule.quantity, "d", f.sd>>>> ELSE <<>>)

HorizontalVectorRule_terms(rule, f) ==
    (IF f.ca # 0 THEN <<<<rule.quantity, "n", f.ca>>>> ELSE <<>>)
    \o (IF f.sa # 0 THEN <<<<rule.quantity, "e", f.sa>>>> ELSE <<>>)

rule_terms(rule, factors) ==
    IF rule.cls = "ScalarRule" THEN Ok(<<<<rule.quantity, "", 1>>>>)
    ELSE IF factors.kind # "ok" THEN factors
    ELSE IF rule.cls = "VectorRule" THEN Ok(VectorRule_terms(rule, factors.value))
    ELSE Ok(HorizontalVectorRule_terms(rule, factors.value))

\* rule.required_components(target), as a set of component names
required_components_of(terms) ==
    IF terms.kind # "ok" THEN terms
    ELSE Ok({<<terms.value[i][1], terms.value[i][2]>> : i \in DOMAIN terms.value})

required_components(rule, t) ==
    required_components_of(rule_terms(rule, get_sin_cos_factors(t)))

\* rule.apply_(target, base_seismogram): the weighted sum of stored traces
apply_of(terms, rule, base_seismogram) ==
    IF terms.kind # "ok" THEN terms
    ELSE Ok([terms |-> terms.value, differentiate |-> rule.differentiate,
             base_seismogram |-> base_seismogram])

apply_(rule, t, base_seismogram) ==
    apply_of(rule_terms(rule, get_sin_cos_factors(t)), rule, base_seismogram)

---------------------------------------------------------------------------
(* The engine's computation of one seismogram.                             *)

\* the class attribute discretized_source_class of the source classes
discretized_source_class(cls) ==
    CASE cls \in {"ExplosionSource"} -> "DiscretizedExplosionSource"
      [] cls \in {"DCSource", "CLVDSource", "MTSource", "DoubleDCSource",
                  "RingfaultSource", "RectangularSource"} -> "DiscretizedMTSource"
      [] cls = "SFSource" -> "DiscretizedSFSource"
      [] cls = "PorePressurePointSource" -> "DiscretizedPorePressureSource"

\* meta.Discretized*Source.provided_components(component_scheme)
discretized_provided_components(dcls, component_scheme) ==
    IF component_scheme = "elastic10"
            /\ dcls \in {"DiscretizedMTSource", "DiscretizedExplosionSource"}
    THEN {<<"displacement", c>> : c \in {"n", "e", "d"}}
    ELSE IF component_scheme = "poroelastic10"
            /\ dcls = "DiscretizedPorePressureSource"
    THEN {<<"displacement", c>> : c \in {"n", "e", "d"}}
         \cup {<<"vertical_tilt", c>> : c \in {"n", "e"}}
         \cup {<<"pore_pressure", "">>}
         \cup {<<"darcy_velocity", c>> : c \in {"n", "e", "d"}}
    ELSE {}

\* Source.provided_components
provided_components(s, component_scheme) ==
    discretized_provided_components(discretized_source_class(s.cls),
                                    component_scheme)

\* the first rule of the quantity, whatever the source provides
first_rule_unchecked(rules, cprovided, t) ==
    IF rules = <<>> THEN Raised("BadRequest") ELSE Ok(Head(rules))

\* The loop of channel_rule over channel_rules[quantity]
RECURSIVE first_rule(_, _, _)
first_rule(rules, cprovided, t) ==
    IF rules = <<>> THEN Raised("BadRequest")
    ELSE IF required_components(Head(rules), t).kind # "ok"
    THEN required_components(Head(rules), t)
    ELSE IF required_components(Head(rules), t).value \subseteq cprovided
    THEN Ok(Head(rules))
    ELSE first_rule(Tail(rules), cprovided, t)

channel_rule_of(got, quantity, s, t) ==
    IF got.kind # "ok" THEN Raised(got.kind)
    ELSE IF quantity.kind # "ok" THEN quantity
    ELSE IF quantity.value \notin DOMAIN channel_rules THEN Raised("BadRequest")
    ELSE first_rule(
            channel_rules[quantity.value],
            provided_components(s, StoreConfigs[got.value.dir].component_scheme),
            t)

\* LocalEngine.channel_rule.  The store handle comes from get_store; within
\* process the target's store is open by then, so the engine is unchanged.
channel_rule(eng, s, t) ==
    channel_rule_of(get_store(eng, t.store_id), effective_quantity(t), s, t)

\* Location.distance_to for two places with the same lat and lon that
\* differ along one of the axes north, east
distance_to(a, b) ==
    CASE a.lat = b.lat /\ a.lon = b.lon /\ a.east_shift = b.east_shift ->
            Abs(a.north_shift - b.north_shift)
      [] a.lat = b.lat /\ a.lon = b.lon /\ a.north_shift = b.north_shift ->
            Abs(a.east_shift - b.east_shift)

\* Target.receiver
receiver(t) ==
    [lat |-> t.lat, lon |-> t.lon, north_shift |-> t.north_shift,
     east_shift |-> t.east_shift, depth |-> t.depth]

\* the i-th elementary contribution of a discretized source lies within the
\* distance axis of the store, as seen from the receiver
in_bounds(config, ds, rcv, i) ==
    /\ ds.lat = rcv.lat /\ ds.lon = rcv.lon
    /\ ds.east_shifts[i] = RInt(rcv.east_shift)
    /\ ~RLt(RInt(config.distance_max),
            RSub(ds.north_shifts[i], RInt(rcv.north_shift)))
    /\ ~RLt(RInt(config.distance_max),
            RSub(RInt(rcv.north_shift), ds.north_shifts[i]))

\* store.Store.seismogram followed by store.make_same_span: one stacked
\* trace per requested component, all of the same span, or OutOfBounds
\* kwargs are deltat, itmin, nsamples, interpolation and optimization
store_seismogram(config, ds, rcv, components, kwargs) ==
    IF \E i \in DOMAIN ds.times : ~in_bounds(config, ds, rcv, i)
    THEN Raised("OutOfBounds")
    ELSE Ok([store_id |-> config.id, components |-> components,
             source |-> ds, receiver |-> rcv,
             deltat |-> IF kwargs.deltat = None THEN config.deltat
                        ELSE kwargs.deltat,
             itmin |-> IF kwargs.itmin = None THEN 0 ELSE kwargs.itmin[1],
             nsamples |-> kwargs.nsamples,
             interpolation |-> kwargs.interpolation,
             optimization |-> kwargs.optimization,
             n_records_stacked |-> Len(ds.times)])

\* A store handle as a cache key
store_key(handle) == <<handle.id, handle.serial>>

\* LocalEngine._cached_discretize_basesource: the cache after the call
cached_discretize_basesource(heap_, oid, handle, cache, t) ==
    IF <<oid, store_key(handle)>> \in DOMAIN cache THEN cache
    ELSE DictSet(cache, <<oid, store_key(handle)>>,
                 discretize_basesource(heap_[oid], StoreConfigs[handle.dir], t))

\* base_seismogram from "if target.sample_rate is not None" on
base_seismogram_stacked(config, t, window, cache, ds) ==
    [store_seismogram(config, ds, receiver(t), window.components,
                      [deltat |-> IF t.sample_rate # None
                                  THEN RDiv(ROne, t.sample_rate) ELSE None,
                       itmin |-> window.itmin, nsamples |-> window.nsamples,
                       interpolation |-> t.interpolation,
                       optimization |-> t.optimization])
        EXCEPT !.value = [cache |-> cache, base_seismogram |-> @]]

base_seismogram_cached(heap_, oid, handle, t, window, cache) ==
    base_seismogram_stacked(StoreConfigs[handle.dir], t, window, cache,
                            cache[<<oid, store_key(handle)>>])

\* base_seismogram once the store handle is there
base_seismogram_of(heap_, oid, t, components, cache, handle) ==
    base_seismogram_cached(
        heap_, oid, handle, t,
        IF t.tmin # None /\ t.tmin # RZero /\ t.tmax # None
        THEN [components |-> components,
              itmin |-> <<RFloor(RDiv(t.tmin, StoreConfigs[handle.dir].deltat))>>,
              nsamples |-> <<RCeil(RDiv(RSub(t.tmax, t.tmin),
                                        StoreConfigs[handle.dir].deltat))>>]
        ELSE [components |-> components, itmin |-> None, nsamples |-> None],
        cached_discretize_basesource(heap_, oid, handle, cache, t))

\* LocalEngine.base_seismogram: "ok" with the traces and the cache after the
\* call, or OutOfBounds with the cache after the call
base_seismogram(eng, heap_, oid, t, components, cache) ==
    base_seismogram_of(heap_, oid, t, components, cache,
                       get_store(eng, t.store_id).value)

---------------------------------------------------------------------------
(* Post-processing and the processing of one subrequest.                   *)

\* Result(trace=tr); the stacking statistics are attributes set later
Result(tr) ==
    [cls |-> "Result", trace |-> tr,
     n_records_stacked |-> None, n_shared_stacking |-> None]

\* Target.post_process
Target_post_process(t, s, tr) == Result(tr)

\* _post_process from "factor = ..." on: data is the output of the rule,
\* d the discretized post-stack stf
post_process_convolved(seismogram, s, t, data, factor, d) ==
    Target_post_process(
        t, s,
        [codes |-> t.codes,
         data |-> [convolved |-> data, factor |-> factor,
                   amplitudes |-> d.amplitudes],
         deltat |-> seismogram.deltat,
         tmin |-> RAdd(RMul(RInt(seismogram.itmin), seismogram.deltat),
                       d.times[1])])

post_process_applied(seismogram, s, t, data) ==
    IF data.kind # "ok" THEN data
    ELSE Ok(post_process_convolved(
                seismogram, s, t, data.value,
                FactorMul(get_factor(s), Target_get_factor(t)),
                discretize_t(effective_stf_post(s), seismogram.deltat,
                             RInt(get_timeshift(s)))))

post_process_ruled(seismogram, s, t, rule) ==
    IF rule.kind # "ok" THEN rule
    ELSE post_process_applied(seismogram, s, t,
                              apply_(rule.value, t, seismogram))

\* LocalEngine._post_process: "ok" and a Result, or the exception raised
post_process(eng, seismogram, s, t) ==
    post_process_ruled(seismogram, s, t, channel_rule(eng, s, t))

\* OutOfBoundsContext that leaves the components out
OutOfBoundsContext_without_components(source, target, distance, components) ==
    [source |-> source, target |-> target, distance |-> distance,
     components |-> {}]

\* OutOfBoundsContext; source and target are named by their object ids
OutOfBoundsContext(source, target, distance, components) ==
    [source |-> source, target |-> target, distance |-> distance,
     components |-> components]

NoContext == OutOfBoundsContext("None", "None", 0, {})

\* The first loop of process_subrequest: the components all targets need
RECURSIVE subrequest_components(_, _, _, _)
subrequest_components(eng, s, targets, components) ==
    IF targets = <<>> THEN Ok(components)
    ELSE IF channel_rule(eng, s, Head(targets)).kind # "ok"
    THEN channel_rule(eng, s, Head(targets))
    ELSE subrequest_components(
            eng, s, Tail(targets),
            components \cup
                required_components(channel_rule(eng, s, Head(targets)).value,
                                    Head(targets)).value)

\* The exceptions that are SeismosizerError
SeismosizerErrors == {"SeismosizerError", "BadRequest"}

\* One turn of the loop over sources and targets; posted is what
\* _post_process handed back
subrequest_result(posted, n_records_stacked, n_shared_stacking) ==
    IF posted.kind = "ok"
    THEN [posted.value EXCEPT !.n_records_stacked = <<n_records_stacked>>,
                              !.n_shared_stacking = <<n_shared_stacking>>]
    ELSE [cls |-> posted.kind]

\* process_subrequest after base_seismogram has returned
subrequest_posted(eng, heap_, sources, targets, w, stacked) ==
    [kind |-> "ok", context |-> NoContext, cache |-> stacked.value.cache,
     results |->
        [n \in 1..(Len(sources) * Len(targets)) |->
            [isource |-> w.isources[((n - 1) \div Len(targets)) + 1],
             itarget |-> w.itargets[((n - 1) % Len(targets)) + 1],
             result |->
                subrequest_result(
                    post_process(eng, stacked.value.base_seismogram,
                                 heap_[sources[((n - 1) \div Len(targets)) + 1]],
                                 targets[((n - 1) % Len(targets)) + 1]),
                    Cardinality(stacked.value.base_seismogram.components)
                        * stacked.value.base_seismogram.n_records_stacked,
                    Len(sources) * Len(targets))]]]

\* process_subrequest after the try around the call of base_seismogram
subrequest_stacked(eng, heap_, sources, targets, w, components, stacked) ==
    IF stacked.kind = "OutOfBounds"
    THEN [kind |-> "OutOfBounds",
          context |-> OutOfBoundsContext(
                        sources[1], targets[1].oid,
                        distance_to(heap_[sources[1]], targets[1]),
                        components),
          cache |-> stacked.value.cache, results |-> <<>>]
    ELSE subrequest_posted(eng, heap_, sources, targets, w, stacked)

subrequest_with_components(eng, heap_, sources, targets, w, cache, components) ==
    IF components.kind # "ok"
    THEN [kind |-> components.kind, context |-> NoContext, cache |-> cache,
          results |-> <<>>]
    ELSE subrequest_stacked(
            eng, heap_, sources, targets, w, components.value,
            base_seismogram(eng, heap_, sources[1], targets[1],
                            components.value, cache))

\* process_subrequest(work, pshared): sources are the objects (ids)
\* pshared['sources'][isource], targets the targets pshared['targets'][itarget].
\* "ok" with the list of (isource, itarget, result), or the exception
\* that leaves the function; cache is pshared['dsource_cache'] afterwards.
process_subrequest(eng, heap_, sources, targets, w, cache) ==
    subrequest_with_components(
        eng, heap_, sources, targets, w, cache,
        subrequest_components(eng, heap_[sources[1]], targets, {}))

---------------------------------------------------------------------------
(* Requests.  A request lists its sources and targets as objects: sources  *)
(* by their ids in the heap, targets by their ids in TargetObjects.  The   *)
(* same object may be listed more than once.                               *)

TargetObjects ==
    [o \in {"t1", "t2", "t3", "t4", "t5", "t6", "t7"} |->
        CASE o = "t1" -> [Target EXCEPT !.oid = o, !.store_id = "A",
                                        !.north_shift = 1000]
          [] o = "t7" -> [Target EXCEPT !.oid = o, !.store_id = "A",
                                        !.north_shift = 1000,
                                        !.interpolation = "multilinear"]
          [] o = "t2" -> [Target EXCEPT !.oid = o, !.store_id = "A",
                                        !.north_shift = 1000,
                                        !.codes = <<"", "STA", "", <<"N">>>>]
          [] o = "t3" -> [Target EXCEPT !.oid = o, !.store_id = "A",
                                        !.north_shift = 5000]
          [] o = "t4" -> [Target EXCEPT !.oid = o, !.store_id = "B",
                                        !.north_shift = 1000]
          [] o = "t5" -> [Target EXCEPT !.oid = o, !.store_id = "Z",
                                        !.north_shift = 1000]
          [] o = "t6" -> [Target EXCEPT !.oid = o, !.store_id = "A",
                                        !.north_shift = 5000,
                                        !.codes = <<"", "STA", "", <<"N">>>>]]

SourceObjects ==
    [o \in {"s1", "s2", "s3", "s4"} |->
        CASE o = "s1" -> DCSource
          [] o = "s2" -> [DCSource EXCEPT !.time = 5, !.magnitude = 210]
          [] o = "s3" -> [DCSource EXCEPT !.strike = 90, !.time = 2,
                                          !.magnitude = 150]
          [] o = "s4" -> PorePressurePointSource]

\* Request.subsources_map with m[key] = [source] in place of the append
RECURSIVE subsources_map_overwriting(_, _, _)
subsources_map_overwriting(sources, heap_, m) ==
    IF sources = <<>> THEN m
    ELSE subsources_map_overwriting(
            Tail(sources), heap_,
            DictSet(m, base_key(heap_[Head(sources)]), <<Head(sources)>>))

\* Request.subsources_map: m is the defaultdict built so far
RECURSIVE subsources_map(_, _, _)
subsources_map(sources, heap_, m) ==
    IF sources = <<>> THEN m
    ELSE subsources_map(
            Tail(sources), heap_,
            DictSet(m, base_key(heap_[Head(sources)]),
                    (IF base_key(heap_[Head(sources)]) \in DOMAIN m
                     THEN m[base_key(heap_[Head(sources)])] ELSE <<>>)
                        \o <<Head(sources)>>))

\* Request.subtargets_map
RECURSIVE subtargets_map(_, _)
subtargets_map(targets, m) ==
    IF targets = <<>> THEN m
    ELSE subtargets_map(
            Tail(targets),
            DictSet(m, Target_base_key(TargetObjects[Head(targets)]),
                    (IF Target_base_key(TargetObjects[Head(targets)]) \in DOMAIN m
                     THEN m[Target_base_key(TargetObjects[Head(targets)])]
                     ELSE <<>>)
                        \o <<Head(targets)>>))

subrequest_map_of(ms, mt) ==
    [k \in (DOMAIN ms) \X (DOMAIN mt) |-> <<ms[k[1]], mt[k[2]]>>]

\* Request.subrequest_map
subrequest_map(req, heap_) ==
    subrequest_map_of(subsources_map(req.sources, heap_, EmptyDict),
                      subtargets_map(req.targets, EmptyDict))

---------------------------------------------------------------------------
(* Spec: LocalEngine.process on one request.  The subrequests are handed   *)
(* to the parallel map, which runs them and yields what they return in     *)
(* any order.                                                              *)

\* dict((x, i) for (i, x) in enumerate(objects)): the last position of x
index_of(objects, x) ==
    CHOOSE i \in DOMAIN objects :
        objects[i] = x /\ \A j \in DOMAIN objects : objects[j] = x => j <= i

\* an element of the list "work" of process, for the subrequest m[k]
work_item(req, mk) ==
    [sources |-> mk[1], targets |-> mk[2],
     isources |-> [n \in DOMAIN mk[1] |-> index_of(req.sources, mk[1][n])],
     itargets |-> [n \in DOMAIN mk[2] |-> index_of(req.targets, mk[2][n])]]

work_of(req, m) == [k \in DOMAIN m |-> work_item(req, m[k])]

\* "for store_id in store_ids: self.get_store(store_id)", the ids taken in
\* the order given
RECURSIVE open_request_stores(_, _)
open_request_stores(eng, store_ids) ==
    IF store_ids = <<>> THEN Outcome(eng, "ok", NoValue)
    ELSE IF get_store(eng, Head(store_ids)).kind # "ok"
    THEN get_store(eng, Head(store_ids))
    ELSE open_request_stores(get_store(eng, Head(store_ids)).eng,
                             Tail(store_ids))

\* the orders in which a set can be iterated
Orders(S) ==
    {o \in [1..Cardinality(S) -> S] : \A x \in S : \E i \in DOMAIN o : o[i] = x}

NoResult == [cls |-> "NoneType"]

RequestSources ==
    {<<"s1">>, <<"s1", "s2">>, <<"s2", "s1">>, <<"s1", "s3">>,
     <<"s1", "s2", "s3">>, <<"s3", "s1", "s2">>, <<"s1", "s1">>,
     <<"s4", "s1">>}

RequestTargets ==
    {<<"t1">>, <<"t1", "t2">>, <<"t2", "t1">>, <<"t1", "t4">>, <<"t1", "t3">>,
     <<"t3", "t1", "t2">>, <<"t1", "t5">>, <<"t6", "t3">>}

Init ==
    /\ engine = LocalEngine(<<"/gf1">>, <<>>, "None")
    /\ last_call = NoCall
    /\ history = NoHistory
    /\ heap = SourceObjects
    /\ request \in [sources : RequestSources, targets : RequestTargets]
    /\ pc = "idle"
    /\ work = EmptyDict
    /\ pending = {}
    /\ returned = EmptyDict
    /\ results_list = <<>>
    /\ dsource_cache = EmptyDict
    /\ counters = [base_seismogram |-> 0]
    /\ err = NoError
    /\ stats = <<>>
    /\ SourceUnused

\* ProcessOpened with pshared['dsource_cache'] left as the last call left it
ProcessOpened_keeping_cache(opened) ==
    /\ engine' = opened.eng
    /\ IF opened.kind # "ok"
       THEN /\ pc' = "raised"
            /\ err' = [kind |-> opened.kind, context |-> NoContext]
            /\ UNCHANGED <<work, pending, results_list>>
       ELSE /\ pc' = "map"
            /\ work' = work_of(request, subrequest_map(request, heap))
            /\ pending' = DOMAIN work'
            /\ results_list' =
                [i \in DOMAIN request.sources |->
                    [j \in DOMAIN request.targets |-> NoResult]]
            /\ err' = err
    /\ UNCHANGED <<last_call, history, heap, request, returned, counters, stats,
                   dsource_cache, source_vars>>

\* process up to the parallel map, once the stores have been opened
ProcessOpened(opened) ==
    /\ engine' = opened.eng
    /\ IF opened.kind # "ok"
       THEN /\ pc' = "raised"
            /\ err' = [kind |-> opened.kind, context |-> NoContext]
            /\ UNCHANGED <<work, pending, results_list, dsource_cache>>
       ELSE /\ pc' = "map"
            /\ work' = work_of(request, subrequest_map(request, heap))
            /\ pending' = DOMAIN work'
            /\ results_list' =
                [i \in DOMAIN request.sources |->
                    [j \in DOMAIN request.targets |-> NoResult]]
            /\ dsource_cache' = EmptyDict
            /\ err' = err
    /\ UNCHANGED <<last_call, history, heap, request, returned, counters, stats,
                   source_vars>>

\* LocalEngine.process up to the call of the parallel map
Process ==
    /\ pc = "idle"
    /\ \E store_ids \in
            Orders({TargetObjects[request.targets[j]].store_id :
                        j \in DOMAIN request.targets}) :
          ProcessOpened(open_request_stores(engine, store_ids))

\* what Subrequest leaves behind, out being what process_subrequest returned
SubrequestDone(k, out) ==
    /\ returned' = DictSet(returned, k, out)
    /\ dsource_cache' = out.cache
    /\ counters' =
        [counters EXCEPT !.base_seismogram =
            @ + (IF out.kind \in {"ok", "OutOfBounds"} THEN 1 ELSE 0)]

\* the parallel map runs process_subrequest on one element of work
Subrequest(k) ==
    /\ pc = "map"
    /\ k \in pending
    /\ pending' = pending \ {k}
    /\ SubrequestDone(
            k,
            process_subrequest(
                engine, heap, work[k].sources,
                [n \in DOMAIN work[k].targets |-> TargetObjects[work[k].targets[n]]],
                work[k], dsource_cache))
    /\ UNCHANGED <<engine_vars, heap, request, pc, work, results_list, err,
                   stats, source_vars>>

\* "for isource, itarget, result in ii_results:
\*      results_list[isource][itarget] = result"
RECURSIVE store_results(_, _)
store_results(list, ii_results) ==
    IF ii_results = <<>> THEN list
    ELSE store_results(
            [list EXCEPT ![Head(ii_results).isource][Head(ii_results).itarget] =
                Head(ii_results).result],
            Tail(ii_results))

\* the parallel map yields what one subrequest returned, or raises what it
\* raised; the body of the loop of process over the map
Collect(k) ==
    /\ pc = "map"
    /\ k \in DOMAIN returned
    /\ returned' = [x \in DOMAIN returned \ {k} |-> returned[x]]
    /\ IF returned[k].kind # "ok"
       THEN /\ pc' = "raised"
            /\ err' = [kind |-> returned[k].kind, context |-> returned[k].context]
            /\ UNCHANGED results_list
       ELSE /\ results_list' = store_results(results_list, returned[k].results)
            /\ UNCHANGED <<pc, err>>
    /\ UNCHANGED <<engine_vars, heap, request, work, pending, dsource_cache,
                   counters, stats, source_vars>>

\* the flat list of the results of results_list
RECURSIVE flat(_)
flat(lists) == IF lists = <<>> THEN <<>> ELSE Head(lists) \o flat(Tail(lists))

\* ProcessingStats that adds up result.n_records_stacked as it stands
ProcessingStats_undivided(req, work_, results) ==
    [n_results |-> Len(req.targets) * Len(req.sources),
     n_subrequests |-> Cardinality(DOMAIN work_),
     n_stores |->
        Cardinality({TargetObjects[req.targets[j]].store_id :
                        j \in DOMAIN req.targets}),
     n_records_stacked |->
        RFloor(RSum([n \in DOMAIN results |->
            RInt(results[n].n_records_stacked[1])]))]

\* ProcessingStats, the counts; n_records_stacked sums up
\* result.n_records_stacked / result.n_shared_stacking
ProcessingStats(req, work_, results) ==
    [n_results |-> Len(req.targets) * Len(req.sources),
     n_subrequests |-> Cardinality(DOMAIN work_),
     n_stores |->
        Cardinality({TargetObjects[req.targets[j]].store_id :
                        j \in DOMAIN req.targets}),
     n_records_stacked |->
        RFloor(RSum([n \in DOMAIN results |->
            Rat(results[n].n_records_stacked[1],
                results[n].n_shared_stacking[1])]))]

\* process after the parallel map: the statistics and the Response.  Reading
\* n_shared_stacking of a result that is not a Result raises AttributeError.
Finish ==
    /\ pc = "map"
    /\ pending = {}
    /\ DOMAIN returned = {}
    /\ IF \E i \in DOMAIN results_list : \E j \in DOMAIN results_list[i] :
            results_list[i][j].cls # "Result"
       THEN /\ pc' = "raised"
            /\ err' = [kind |-> "AttributeError", context |-> NoContext]
            /\ UNCHANGED stats
       ELSE /\ pc' = "done"
            /\ stats' = ProcessingStats(request, work, flat(results_list))
            /\ UNCHANGED err
    /\ UNCHANGED <<engine_vars, heap, request, work, pending, returned,
                   results_list, dsource_cache, counters, source_vars>>

Next ==
    \/ Process
    \/ \E k \in pending : Subrequest(k)
    \/ \E k \in DOMAIN returned : Collect(k)
    \/ Finish

Spec == Init /\ [][Next]_vars

---------------------------------------------------------------------------
(* Properties of process (Spec).                                           *)

SourceAt(i) == heap[request.sources[i]]
TargetAt(j) == TargetObjects[request.targets[j]]

\* r is the Result of post-processing for source s and target t: the trace
\* has the target's codes, was stacked from the target's store for the
\* source's discretization and the target's place, and carries the source's
\* scale factor and origin time
IsResultOf(r, s, t) ==
    /\ r.cls = "Result"
    /\ r.trace.codes = t.codes
    /\ r.trace.data.factor = get_factor(s)
    /\ r.trace.tmin = RInt(s.time)
    /\ r.trace.data.convolved.base_seismogram.store_id = t.store_id
    /\ r.trace.data.convolved.base_seismogram.receiver = receiver(t)
    /\ r.trace.data.convolved.base_seismogram.source.weights[1].m =
            MomentTensor(s.strike, s.dip, s.rake, ROne)

AllReturned == pc = "map" /\ pending = {} /\ DOMAIN returned = {}

\* C1: once every subrequest has been completed and returned by the map, in
\* whatever order, results_list[i][j] holds the result of the i-th source
\* and the j-th target of the request, for every i and j; before that, a
\* slot is empty or holds that result.
C1_ResultsByRequestIndex ==
    /\ pc \in {"map", "done"} =>
        \A i \in DOMAIN results_list : \A j \in DOMAIN results_list[i] :
            \/ results_list[i][j] = NoResult
            \/ IsResultOf(results_list[i][j], SourceAt(i), TargetAt(j))
    /\ (AllReturned \/ pc = "done") =>
        \A i \in DOMAIN request.sources : \A j \in DOMAIN request.targets :
            IsResultOf(results_list[i][j], SourceAt(i), TargetAt(j))

\* C2: the keys of the subrequest map are exactly the pairs (source base
\* key, target base key) present in the request, the value of a key holds
\* all sources with that source key and all targets with that target key
\* and no others, and every (source, target) pair of the request is in
\* exactly one subrequest.
C2_SubrequestsPartition ==
    DOMAIN work # {} =>
        /\ DOMAIN work =
            {<<base_key(SourceAt(i)), Target_base_key(TargetAt(j))>> :
                i \in DOMAIN request.sources, j \in DOMAIN request.targets}
        /\ \A k \in DOMAIN work :
            /\ Len(work[k].sources) =
                Cardinality({i \in DOMAIN request.sources :
                                base_key(SourceAt(i)) = k[1]})
            /\ Len(work[k].targets) =
                Cardinality({j \in DOMAIN request.targets :
                                Target_base_key(TargetAt(j)) = k[2]})
            /\ \A i \in DOMAIN request.sources :
                base_key(SourceAt(i)) = k[1]
                    <=> request.sources[i] \in Image(work[k].sources)
            /\ \A j \in DOMAIN request.targets :
                Target_base_key(TargetAt(j)) = k[2]
                    <=> request.targets[j] \in Image(work[k].targets)
        /\ \A i \in DOMAIN request.sources : \A j \in DOMAIN request.targets :
            Cardinality({k \in DOMAIN work :
                /\ request.sources[i] \in Image(work[k].sources)
                /\ request.targets[j] \in Image(work[k].targets)}) = 1

C2_Witness ==
    /\ pc = "map"
    /\ Cardinality(DOMAIN work) = 4
    /\ \E k \in DOMAIN work :
        Len(work[k].sources) = 2 /\ Len(work[k].targets) = 2

\* the sources of the request are distinct DC sources that differ in
\* nothing but time and magnitude, and there is one target
SameButTimeAndMagnitude ==
    /\ Len(request.targets) = 1
    /\ Len(request.sources) >= 2
    /\ \A i \in DOMAIN request.sources :
        /\ SourceAt(i).cls = "DCSource"
        /\ [SourceAt(i) EXCEPT !.time = 0, !.magnitude = 0] =
                [SourceAt(1) EXCEPT !.time = 0, !.magnitude = 0]
        /\ \A j \in DOMAIN request.sources :
                i # j => request.sources[i] # request.sources[j]

\* C3: for DC sources that differ only in time and magnitude and one
\* target, process forms one subrequest and computes the base seismogram
\* once, and each source's result carries the moment of that source's
\* magnitude as scale factor and that source's origin time as time shift.
C3_SharedStackOwnFactor ==
    (SameButTimeAndMagnitude /\ pc \in {"map", "done"}) =>
        /\ Cardinality(DOMAIN work) = 1
        /\ counters.base_seismogram <= 1
        /\ pc = "done" =>
            /\ counters.base_seismogram = 1
            /\ \A i \in DOMAIN request.sources :
                /\ results_list[i][1].cls = "Result"
                /\ results_list[i][1].trace.data.factor =
                        magnitude_to_moment(SourceAt(i).magnitude)
                /\ results_list[i][1].trace.tmin = RInt(SourceAt(i).time)
                /\ results_list[i][1].n_shared_stacking =
                        <<Len(request.sources)>>

C3_Witness ==
    /\ SameButTimeAndMagnitude
    /\ pc = "done"
    /\ results_list[1][1].trace.data.factor # results_list[2][1].trace.data.factor
    /\ results_list[1][1].trace.tmin # results_list[2][1].trace.tmin

\* C5: an out-of-bounds failure while stacking a subrequest, or a
\* SeismosizerError in the processing of a pair, does not abort process:
\* process never ends by raising such a failure.
C5_FailureDoesNotAbort ==
    ~(pc = "raised" /\ err.kind \in {"OutOfBounds"} \cup SeismosizerErrors)

\* C6: the out-of-bounds error that leaves process_subrequest carries a
\* context naming the first source and the first target of that subrequest,
\* the distance between the two, and the stored components requested for
\* the targets of the subrequest.
C6_OutOfBoundsContext ==
    \A k \in DOMAIN returned :
        returned[k].kind = "OutOfBounds" =>
            /\ returned[k].context.source = work[k].sources[1]
            /\ returned[k].context.target = work[k].targets[1]
            /\ returned[k].context.distance =
                Abs(heap[returned[k].context.source].north_shift
                    - TargetObjects[returned[k].context.target].north_shift)
            /\ returned[k].context.components =
                {<<"displacement",
                   IF component_code(TargetObjects[work[k].targets[n]]) = "Z"
                   THEN "d"
                   ELSE IF component_code(TargetObjects[work[k].targets[n]]) = "N"
                   THEN "n" ELSE "e">> : n \in DOMAIN work[k].targets}

C6_Witness ==
    \E k \in DOMAIN returned :
        /\ returned[k].kind = "OutOfBounds"
        /\ Len(work[k].targets) = 2
        /\ returned[k].context.distance = 5000
        /\ Cardinality(returned[k].context.components) = 2

---------------------------------------------------------------------------
(* SpecSTF: discretize_t of one source time function, for any sampling     *)
(* interval and reference time.                                            *)

SourcesUnused ==
    /\ src_a = <<>>
    /\ src_b = <<>>
    /\ fn_out = <<>>

\* durations are not negative; sampling intervals are positive
STFDurations == {RZero, Rat(1, 4), ROne, Rat(3, 2), RInt(3)}
STFAnchors == {RInt(-1), RZero, RHalf, ROne}
STFPeakRatios == {RZero, Rat(1, 4), RHalf, ROne}
STFDeltats == {RHalf, ROne, RInt(2)}
STFTrefs == {RZero, Rat(1, 4), RHalf, ROne, Rat(-3, 4), Rat(5, 2)}

STFShape(cls, duration, anchor, peak_ratio) ==
    [cls |-> cls, oid |-> "stf", duration |-> duration, anchor |-> anchor,
     peak_ratio |-> peak_ratio]

STFPool ==
    {STFShape("STF", RZero, RZero, RHalf)}
    \cup {STFShape(c, d, a, RHalf) :
            c \in {"BoxcarSTF", "HalfSinusoidSTF"},
            d \in STFDurations, a \in STFAnchors}
    \cup {STFShape("TriangularSTF", d, a, r) :
            d \in STFDurations, a \in STFAnchors, r \in STFPeakRatios}

InitSTF ==
    /\ call \in {[fn |-> "None", self |-> stf, args |-> <<>>, out |-> <<>>] :
                    stf \in STFPool}
    /\ class_keys = <<>>
    /\ SourcesUnused
    /\ EngineUnused
    /\ ProcessUnused

DiscretizeT(deltat, tref) ==
    /\ call' = [fn |-> "discretize_t", self |-> call.self,
                args |-> <<deltat, tref>>,
                out |-> discretize_t(call.self, deltat, tref)]
    /\ UNCHANGED <<class_keys, src_a, src_b, fn_out, engine_vars, process_vars>>

NextSTF == \E deltat \in STFDeltats, tref \in STFTrefs : DiscretizeT(deltat, tref)

SpecSTF == InitSTF /\ [][NextSTF]_vars

\* C11: for every STF shape, sampling interval and reference time the
\* amplitudes returned by discretize_t sum to unity and there is one
\* amplitude per returned time.
C11_AmplitudesSumToUnity ==
    call.fn = "discretize_t" =>
        /\ RSum(call.out.amplitudes) = ROne
        /\ Len(call.out.amplitudes) = Len(call.out.times)
        /\ Len(call.out.times) >= 1

\* a boxcar of one sample that sshift spreads over two samples
C11_Witness ==
    /\ call.fn = "discretize_t"
    /\ call.self.cls = "BoxcarSTF"
    /\ call.self.duration = RZero
    /\ call.args = <<ROne, Rat(1, 4)>>
    /\ call.out.times = <<RZero, ROne>>
    /\ call.out.amplitudes = <<Rat(3, 4), Rat(1, 4)>>

---------------------------------------------------------------------------
(* Range: start, stop and step are floats or None; n is <<>> for None and  *)
(* <<k>> for the integer k; values is the list of values, empty when not   *)
(* given.                                                                  *)

Range_T ==
    [start |-> None, stop |-> None, step |-> None, n |-> <<>>, values |-> <<>>,
     spacing |-> "lin", relative |-> ""]

\* Python 2 ordering of floats and None: None is smaller than every number
py_lt(a, b) ==
    IF a = None THEN b # None
    ELSE IF b = None THEN FALSE ELSE RLt(a, b)

RAbs(a) == IF a[1] < 0 THEN RSub(RZero, a) ELSE a

RECURSIVE RPow(_, _)
RPow(q, k) == IF k = 0 THEN ROne ELSE RMul(q, RPow(q, k - 1))

\* num.linspace(start, stop, n)
linspace(start, stop, n) ==
    IF n = 1 THEN <<start>>
    ELSE [i \in 1..n |->
            RAdd(start, RDiv(RMul(RInt(i - 1), RSub(stop, start)), RInt(n - 1)))]

\* num.exp(num.linspace(num.log(start), num.log(stop), n)) for positive
\* start and stop: the geometric sequence from start to stop, where its
\* ratio is rational
RootCandidates == {Rat(a, b) : a \in 1..4, b \in 1..4}
exact_root(x, k) ==
    IF k <= 1 THEN x ELSE CHOOSE q \in RootCandidates : RPow(q, k) = x
exp_linspace_log(start, stop, n) ==
    IF n = 1 THEN <<start>>
    ELSE [i \in 1..n |->
            RMul(start, RPow(exact_root(RDiv(stop, start), n - 1), i - 1))]

Range_make_relative(self, base, vals) ==
    CASE self.relative = "add" -> [i \in 1..Len(vals) |-> RAdd(vals[i], base)]
      [] self.relative = "mult" -> [i \in 1..Len(vals) |-> RMul(vals[i], base)]
      [] OTHER -> vals

\* Range.make, from "if self.relative in ..." on
range_related(self, base, vals) ==
    IF self.relative \in {"add", "mult"} /\ base = None
    THEN Raised("InvalidGridDef")
    ELSE Ok(Range_make_relative(self, base, vals))

\* log spacing that falls back to linear spacing where the range meets zero
range_spaced_lin_on_crossing(self, start, stop, n_, base) ==
    LET n == IF start = stop THEN 1 ELSE n_
        positive == RLt(RZero, start) /\ RLt(RZero, stop)
        negative == RLt(start, RZero) /\ RLt(stop, RZero)
        log_vals ==
            IF positive
            THEN exp_linspace_log(start, stop, n)
            ELSE LET e == exp_linspace_log(RSub(RZero, start), RSub(RZero, stop), n)
                 IN  [i \in 1..Len(e) |-> RSub(RZero, e[i])]
        nvals == [i \in 1..Len(log_vals) |->
                    RSub(RZero, log_vals[Len(log_vals) + 1 - i])]
    IN  CASE self.spacing = "lin" \/ (~positive /\ ~negative) ->
                range_related(self, base, linspace(start, stop, n))
          [] self.spacing = "log" -> range_related(self, base, log_vals)
          [] self.spacing = "symlog" -> range_related(self, base, nvals \o log_vals)

\* Range.make, from "if start == stop" on
range_spaced(self, start, stop, n_, base) ==
    LET n == IF start = stop THEN 1 ELSE n_
        positive == RLt(RZero, start) /\ RLt(RZero, stop)
        negative == RLt(start, RZero) /\ RLt(stop, RZero)
        log_vals ==
            IF positive
            THEN exp_linspace_log(start, stop, n)
            ELSE LET e == exp_linspace_log(RSub(RZero, start), RSub(RZero, stop), n)
                 IN  [i \in 1..Len(e) |-> RSub(RZero, e[i])]
        nvals == [i \in 1..Len(log_vals) |->
                    RSub(RZero, log_vals[Len(log_vals) + 1 - i])]
    IN  CASE self.spacing = "lin" ->
                range_related(self, base, linspace(start, stop, n))
          [] self.spacing \in {"log", "symlog"} /\ ~positive /\ ~negative ->
                Raised("InvalidGridDef")
          [] self.spacing = "log" -> range_related(self, base, log_vals)
          [] self.spacing = "symlog" -> range_related(self, base, nvals \o log_vals)

\* Range.make, "if n is None": the count from the step, and stop moved to
\* the last multiple of step (eps = 1e-5)
range_counted(self, start, stop, step) ==
    IF self.n # <<>>
    THEN Ok([start |-> start, stop |-> stop, n |-> self.n[1]])
    ELSE IF RLt(step, RZero) # RLt(RSub(stop, start), RZero)
    THEN Raised("InvalidGridDef")
    ELSE IF step = RZero
    THEN Raised("ZeroDivisionError")
    ELSE LET n == RRound(RDiv(RSub(stop, start), step)) + 1
             stop2 == RAdd(start, RMul(RInt(n - 1), step))
             nfloor == RFloor(RDiv(RSub(stop, start), step)) + 1
         IN  IF RLt(Rat(1, 100000), RAbs(RSub(stop, stop2)))
             THEN Ok([start |-> start,
                      stop |-> RAdd(start, RMul(RInt(nfloor - 1), step)),
                      n |-> nfloor])
             ELSE Ok([start |-> start, stop |-> stop2, n |-> n])

\* Range.make, from "if start is None or stop is None" on
range_filled(self, start, stop, step) ==
    IF start = None \/ stop = None
    THEN Raised("InvalidGridDef")
    ELSE range_counted(self, start, stop,
                       IF step = None /\ self.n = <<>> THEN RSub(stop, start) ELSE step)

\* Range.make, up to "if start == stop": start, stop and n of the range
range_layout(self, mi, ma, inc) ==
    LET swap == self.step # None /\ RLt(self.step, RZero)
    IN  range_filled(
            self,
            IF self.start = None THEN (IF swap THEN ma ELSE mi) ELSE self.start,
            IF self.stop = None THEN (IF swap THEN mi ELSE ma) ELSE self.stop,
            IF self.step = None /\ inc # None
            THEN (IF py_lt(ma, mi) THEN RSub(RZero, inc) ELSE inc)
            ELSE self.step)

range_made(self, base, layout) ==
    IF layout.kind # "ok"
    THEN layout
    ELSE range_spaced(self, layout.value.start, layout.value.stop, layout.value.n, base)

Range_make(self, mi, ma, inc, base) ==
    IF self.values # <<>>
    THEN Ok(self.values)
    ELSE range_made(self, base, range_layout(self, mi, ma, inc))

---------------------------------------------------------------------------
(* SpecRange: Range.make on one range, and the same range written in the   *)
(* three ways of the class documentation.                                  *)

RangeEnds == {RInt(-4), RInt(-1), RZero, ROne, RInt(4)}
RangeSteps == {None, RInt(-3), Rat(-3, 2), RZero, Rat(3, 2), RInt(3), RInt(5)}
RangeCounts == {<<>>, <<1>>, <<2>>, <<3>>}
\* (mi, ma, inc, base) of the context make() is used in
RangeContexts ==
    {<<None, None, None, None>>, <<ROne, RInt(4), RInt(3), None>>,
     <<RInt(-4), RInt(-1), None, RInt(-10)>>}

RangePool ==
    {[Range_T EXCEPT !.start = a, !.stop = b, !.step = s, !.n = n,
                     !.spacing = sp, !.relative = rel] :
        a \in RangeEnds \cup {None}, b \in RangeEnds, s \in RangeSteps,
        n \in RangeCounts, sp \in {"lin", "log", "symlog"}, rel \in {"", "add"}}
    \cup {[Range_T EXCEPT !.start = ROne, !.stop = Rat(1, 200000),
                          !.step = RInt(-1), !.spacing = sp] :
            sp \in {"lin", "log", "symlog"}}
    \cup {[Range_T EXCEPT !.values = <<RInt(-1), RZero, ROne>>, !.spacing = "log"]}

EquivalentStarts == {RInt(-4), RZero, RHalf, RInt(3)}
EquivalentSteps == {Rat(-3, 2), RInt(-1), RZero, Rat(1, 4), ROne, RInt(2)}
MaxCount == 4

InitRange ==
    /\ call = [fn |-> "None"]
    /\ class_keys = <<>>
    /\ SourcesUnused
    /\ EngineUnused
    /\ ProcessUnused

Make(self, context) ==
    /\ call.fn = "None"
    /\ call' = [fn |-> "make", self |-> self, args |-> context,
                out |-> Range_make(self, context[1], context[2], context[3],
                                   context[4])]
    /\ UNCHANGED <<class_keys, src_a, src_b, fn_out, engine_vars, process_vars>>

\* the list [a, a+s, ..., a+(n-1)*s]
arithmetic(a, s, n) == [i \in 1..n |-> RAdd(a, RMul(RInt(i - 1), s))]

MakeThreeWays(a, s, n) ==
    /\ call.fn = "None"
    /\ call' =
        [fn |-> "make three ways", args |-> <<a, s, n>>,
         by_step |->
            Range_make([Range_T EXCEPT !.start = a, !.step = s,
                           !.stop = RAdd(a, RMul(RInt(n - 1), s))],
                       None, None, None, None),
         by_n |->
            Range_make([Range_T EXCEPT !.start = a, !.n = <<n>>,
                           !.stop = RAdd(a, RMul(RInt(n - 1), s))],
                       None, None, None, None),
         by_values |->
            Range_make([Range_T EXCEPT !.values = arithmetic(a, s, n)],
                       None, None, None, None)]
    /\ UNCHANGED <<class_keys, src_a, src_b, fn_out, engine_vars, process_vars>>

NextRange ==
    \/ \E self \in RangePool, context \in RangeContexts : Make(self, context)
    \/ \E a \in EquivalentStarts, s \in EquivalentSteps, n \in 1..MaxCount :
            MakeThreeWays(a, s, n)

SpecRange == InitRange /\ [][NextRange]_vars

\* C12: for any start a, step s and count n the range written with start,
\* stop and step, with start, stop and n, and with the list of its values
\* makes the same n values in the same order.
C12_ThreeWaysEquivalent ==
    call.fn = "make three ways" =>
        /\ call.by_values = Ok(arithmetic(call.args[1], call.args[2], call.args[3]))
        /\ call.by_step = call.by_values
        /\ call.by_n = call.by_values

\* the sign a range of start .. stop keeps: 1, -1, or 0 where the range
\* includes or crosses zero
strict_sign(start, stop) ==
    IF RLt(RZero, start) /\ RLt(RZero, stop) THEN 1
    ELSE IF RLt(start, RZero) /\ RLt(stop, RZero) THEN -1 ELSE 0

AllOfSign(vals, sign) ==
    \A i \in 1..Len(vals) : vals[i][1] * sign > 0

\* the first half of vals is the second half negated, in reverse order
Mirrored(vals) ==
    /\ Len(vals) % 2 = 0
    /\ \A i \in 1..(Len(vals) \div 2) :
            vals[i] = RSub(RZero, vals[Len(vals) + 1 - i])

LogValuesOfSign(spacing, vals, sign) ==
    IF spacing = "log"
    THEN Len(vals) >= 1 /\ AllOfSign(vals, sign)
    ELSE /\ Len(vals) >= 2
         /\ Mirrored(vals)
         /\ AllOfSign(SubSeq(vals, (Len(vals) \div 2) + 1, Len(vals)), sign)

IsLogMake ==
    /\ call.fn = "make"
    /\ call.self.spacing \in {"log", "symlog"}
    /\ call.self.values = <<>>

---------------------------------------------------------------------------
(* Grid definitions.  A string is the sequence of its characters.          *)

Whitespace == {" ", "\n"}

\* str.split(c)
RECURSIVE split(_, _)
split(s, c) ==
    IF \A i \in 1..Len(s) : s[i] # c
    THEN <<s>>
    ELSE LET i == CHOOSE j \in 1..Len(s) :
                    s[j] = c /\ \A k \in 1..(j - 1) : s[k] # c
         IN  <<SubSeq(s, 1, i - 1)>> \o split(SubSeq(s, i + 1, Len(s)), c)

\* str.splitlines(): a line break at the end does not start a last line
splitlines(s) ==
    LET parts == split(s, "\n")
    IN  IF parts[Len(parts)] = <<>> THEN SubSeq(parts, 1, Len(parts) - 1) ELSE parts

\* str.strip()
RECURSIVE strip(_)
strip(s) ==
    IF s = <<>> THEN s
    ELSE IF s[1] \in Whitespace THEN strip(Tail(s))
    ELSE IF s[Len(s)] \in Whitespace THEN strip(SubSeq(s, 1, Len(s) - 1))
    ELSE s

\* Range.parse for strings of digits "1" and letters: an empty string is a
\* range with nothing given, digits are a list of one value, anything else
\* is no range specification
RECURSIVE decimal(_)
decimal(s) == IF s = <<>> THEN 0 ELSE 10 * decimal(SubSeq(s, 1, Len(s) - 1)) + 1

Range_parse(s) ==
    LET t == SelectSeq(s, LAMBDA c : c \notin Whitespace)
    IN  IF t = <<>> THEN Ok(Range_T)
        ELSE IF \A i \in 1..Len(t) : t[i] = "1"
        THEN Ok([Range_T EXCEPT !.values = <<RInt(decimal(t))>>])
        ELSE Raised("InvalidGridDef")

\* GridDefElement.__init__(shorthand)
GridDefElement_init(shorthand) ==
    LET t == split(shorthand, "=")
    IN  IF Len(t) # 2 THEN Raised("InvalidGridDef")
        ELSE IF Range_parse(strip(t[2])).kind # "ok" THEN Raised("InvalidGridDef")
        ELSE Ok([cls |-> "GridDefElement", param |-> strip(t[1]),
                 rs |-> Range_parse(strip(t[2])).value])

\* the entries GridDef.__init__ collects in tt: each non-blank line,
\* stripped, split at ';'
RECURSIVE GridDef_entries(_)
GridDef_entries(lines) ==
    IF lines = <<>> THEN <<>>
    ELSE (IF strip(Head(lines)) # <<>> THEN split(strip(Head(lines)), ";") ELSE <<>>)
         \o GridDef_entries(Tail(lines))

\* the depth of nested calls after which Python raises RuntimeError
\* (maximum recursion depth exceeded)
RecursionLimit == 3

\* GridDef.__init__(shorthand); depth counts the enclosing calls of
\* GridDef.__init__.  GridDef_elements is its loop "for se in tt".
RECURSIVE GridDef_init(_, _)
RECURSIVE GridDef_elements(_, _)
GridDef_elements(tt, depth) ==
    IF tt = <<>> THEN Ok(<<>>)
    ELSE LET element == GridDef_init(Head(tt), depth + 1)
         IN  IF element.kind # "ok" THEN element
             ELSE LET others == GridDef_elements(Tail(tt), depth)
                  IN  IF others.kind # "ok" THEN others
                      ELSE Ok(<<element.value>> \o others.value)

GridDef_init(shorthand, depth) ==
    IF depth > RecursionLimit
    THEN Raised("RuntimeError")
    ELSE LET elements == GridDef_elements(GridDef_entries(splitlines(shorthand)), depth)
         IN  IF elements.kind # "ok" THEN elements
             ELSE Ok([cls |-> "GridDef", elements |-> elements.value])

---------------------------------------------------------------------------
(* SpecGrid: GridDef built from a shorthand string.                        *)

MaxPieces == 3
ShorthandPieces ==
    {<<"a", "=", "1">>, <<"b", " ", "=", " ", "1", "1">>, <<" ">>, <<";">>,
     <<"\n">>, <<"a">>}

RECURSIVE Shorthands(_)
Shorthands(n) ==
    IF n = 0 THEN {<<>>}
    ELSE Shorthands(n - 1)
         \cup {s \o p : s \in Shorthands(n - 1), p \in ShorthandPieces}

InitGrid ==
    /\ call = [fn |-> "None"]
    /\ class_keys = <<>>
    /\ SourcesUnused
    /\ EngineUnused
    /\ ProcessUnused

NewGridDef(shorthand) ==
    /\ call.fn = "None"
    /\ call' = [fn |-> "GridDef", args |-> shorthand,
                out |-> GridDef_init(shorthand, 1)]
    /\ UNCHANGED <<class_keys, src_a, src_b, fn_out, engine_vars, process_vars>>

NextGrid ==
    \E shorthand \in Shorthands(MaxPieces) : NewGridDef(shorthand)

SpecGrid == InitGrid /\ [][NextGrid]_vars

\* the non-empty entries of a shorthand: what stands between ';' and line
\* breaks, without surrounding blanks
RECURSIVE Flatten(_)
Flatten(ss) == IF ss = <<>> THEN <<>> ELSE Head(ss) \o Flatten(Tail(ss))

NonEmptyEntries(shorthand) ==
    LET lines == split(shorthand, "\n")
        raw == Flatten([i \in 1..Len(lines) |-> split(lines[i], ";")])
    IN  SelectSeq([i \in 1..Len(raw) |-> strip(raw[i])], LAMBDA e : e # <<>>)

\* C14: constructing a GridDef from a shorthand string terminates and
\* yields one grid element (named parameter with its range) per non-empty
\* entry, entries being separated by ';' or line breaks, in order of
\* appearance.
C14_OneElementPerEntry ==
    (/\ call.fn = "GridDef"
     /\ \A i \in 1..Len(NonEmptyEntries(call.args)) :
            GridDefElement_init(NonEmptyEntries(call.args)[i]).kind = "ok")
        => /\ call.out.kind = "ok"
           /\ call.out.value.elements =
                [i \in 1..Len(NonEmptyEntries(call.args)) |->
                    GridDefElement_init(NonEmptyEntries(call.args)[i]).value]

---------------------------------------------------------------------------
(* Parameter names of the source classes (Cloneable).                      *)

\* the base class of each source class
SourceBases ==
    [Source |-> "None", SourceWithMagnitude |-> "Source",
     ExplosionSource |-> "SourceWithMagnitude",
     RectangularExplosionSource |-> "ExplosionSource",
     DCSource |-> "SourceWithMagnitude", RectangularSource |-> "DCSource",
     CLVDSource |-> "Source", MTSource |-> "Source",
     DoubleDCSource |-> "SourceWithMagnitude",
     RingfaultSource |-> "SourceWithMagnitude", SFSource |-> "Source",
     PorePressurePointSource |-> "Source"]

SourceClasses == DOMAIN SourceBases

\* the parameters each class declares itself, in the order of declaration
OwnPropnames ==
    [Source |-> <<"lat", "lon", "north_shift", "east_shift", "depth",
                  "name", "time", "stf", "stf_mode">>,
     SourceWithMagnitude |-> <<"magnitude">>,
     ExplosionSource |-> <<>>,
     RectangularExplosionSource |->
        <<"strike", "dip", "length", "width", "nucleation_x", "nucleation_y",
          "velocity">>,
     DCSource |-> <<"strike", "dip", "rake">>,
     RectangularSource |->
        <<"length", "width", "nucleation_x", "nucleation_y", "velocity", "slip">>,
     CLVDSource |-> <<"amplitude", "azimuth", "dip">>,
     MTSource |-> <<"mnn", "mee", "mdd", "mne", "mnd", "med">>,
     DoubleDCSource |->
        <<"strike1", "dip1", "rake1", "strike2", "dip2", "rake2", "delta_time",
          "delta_depth", "azimuth", "distance", "mix", "stf1", "stf2">>,
     RingfaultSource |-> <<"diameter", "sign", "strike", "dip", "npointsources">>,
     SFSource |-> <<"fn", "fe", "fd">>,
     PorePressurePointSource |-> <<"pp">>]

\* cls.T.propnames: the parameters of the base classes, then the class's own
RECURSIVE propnames(_)
propnames(cls) ==
    IF cls = "None" THEN <<>> ELSE propnames(SourceBases[cls]) \o OwnPropnames[cls]

RECURSIVE issubclass(_, _)
issubclass(cls, base) ==
    cls # "None" /\ (cls = base \/ issubclass(SourceBases[cls], base))

\* Cloneable.keys
Cloneable_keys(cls) == propnames(cls)

\* the class attribute _keys as cls sees it: its own where it has been
\* assigned on cls, else that of the nearest base class; None on
\* SourceWithMagnitude until assigned
RECURSIVE getattr_keys(_, _)
getattr_keys(attrs, cls) ==
    IF cls \notin DOMAIN attrs THEN None
    ELSE IF attrs[cls] # None THEN attrs[cls]
    ELSE getattr_keys(attrs, SourceBases[cls])

\* SourceWithMagnitude.keys: the list returned and the class attributes
\* after the call
SourceWithMagnitude_keys(attrs, cls) ==
    IF getattr_keys(attrs, cls) = None
    THEN [value |-> Cloneable_keys(cls) \o <<"moment">>,
          attrs |-> [attrs EXCEPT ![cls] = Cloneable_keys(cls) \o <<"moment">>]]
    ELSE [value |-> getattr_keys(attrs, cls), attrs |-> attrs]

\* cls.keys()
keys(attrs, cls) ==
    IF issubclass(cls, "SourceWithMagnitude")
    THEN SourceWithMagnitude_keys(attrs, cls)
    ELSE [value |-> Cloneable_keys(cls), attrs |-> attrs]

\* no class has _keys assigned: the classes as defined at import
NoKeys == [cls \in {c \in SourceClasses : issubclass(c, "SourceWithMagnitude")} |-> None]

\* cls(): an object of the class with every parameter at its default
class_default(cls) ==
    CASE cls = "ExplosionSource" -> ExplosionSource
      [] cls = "DCSource" -> DCSource
      [] cls = "CLVDSource" -> CLVDSource
      [] cls = "MTSource" -> MTSource
      [] cls = "DoubleDCSource" -> DoubleDCSource
      [] cls = "RingfaultSource" -> RingfaultSource
      [] cls = "SFSource" -> SFSource
      [] cls = "PorePressurePointSource" -> PorePressurePointSource

\* Source.__init__(**kwargs): the parameters given, defaults for the others
Source_init(cls, kwargs) ==
    [f \in DOMAIN SourceDefaults |->
        IF f \in DOMAIN kwargs THEN kwargs[f] ELSE class_default(cls)[f]]

\* SourceWithMagnitude.__init__(**kwargs)
SourceWithMagnitude_init(cls, kwargs) ==
    IF "moment" \in DOMAIN kwargs
    THEN IF "magnitude" \notin DOMAIN kwargs
         THEN Source_init(cls,
                [k \in (DOMAIN kwargs \ {"moment"}) \cup {"magnitude"} |->
                    IF k = "magnitude" THEN moment_to_magnitude(kwargs["moment"])
                    ELSE kwargs[k]])
         ELSE Source_init(cls, [k \in DOMAIN kwargs \ {"moment"} |-> kwargs[k]])
    ELSE Source_init(cls, kwargs)

\* self.__class__(**d)
new_source(cls, d) ==
    IF issubclass(cls, "SourceWithMagnitude")
    THEN SourceWithMagnitude_init(cls, d)
    ELSE Source_init(cls, d)

\* clone() of an STF: a new object (another identity) of the same class
\* with the same parameters
STF_clone(stf) == [stf EXCEPT !.oid = "copy"]

\* self[k] (Cloneable.__getitem__, ks = self.keys()); moment is a property
Cloneable_getitem(self, k) == IF k = "moment" THEN moment(self) ELSE self[k]

\* Cloneable.clone(**kwargs) of a source; ks is self.keys()
Cloneable_clone(self, ks, kwargs) ==
    LET d == [k \in {ks[i] : i \in 1..Len(ks)} |->
                IF k \in {"stf", "stf1", "stf2"} /\ self[k] # NoSTF
                THEN STF_clone(self[k])
                ELSE Cloneable_getitem(self, k)]
    IN  new_source(self.cls,
                   [k \in DOMAIN d \cup DOMAIN kwargs |->
                        IF k \in DOMAIN kwargs THEN kwargs[k] ELSE d[k]])

---------------------------------------------------------------------------
(* Source grids.                                                           *)

\* SourceGrid.ordered_params: the variables in the order of self.order,
\* then of base.keys(); candidates is self.order + self.base.keys(), ks the
\* variables not yet yielded
RECURSIVE ordered_params(_, _)
ordered_params(candidates, ks) ==
    IF candidates = <<>>
    THEN IF ks # {} THEN Raised("Exception") ELSE Ok(<<>>)
    ELSE IF Head(candidates) \in ks
    THEN LET others == ordered_params(Tail(candidates), ks \ {Head(candidates)})
         IN  IF others.kind # "ok" THEN others
             ELSE Ok(<<Head(candidates)>> \o others.value)
    ELSE ordered_params(Tail(candidates), ks)

\* SourceGrid.make_coords: (param, values) for the ordered parameters; the
\* base source is handed to Range.make in the place of mi
RECURSIVE make_coords(_, _)
make_coords(grid, params) ==
    IF params = <<>> THEN Ok(<<>>)
    ELSE LET vals == Range_make(grid.variables[Head(params)], grid.base,
                                None, None, None)
             others == make_coords(grid, Tail(params))
         IN  IF vals.kind # "ok" THEN vals
             ELSE IF others.kind # "ok" THEN others
             ELSE Ok(<<<<Head(params), vals.value>>>> \o others.value)

\* permudef(l, j): the lists yielded (as they are when yielded) and the
\* list l as it is left; permudef_loop is the loop "for y in v" from the
\* i-th value on
RECURSIVE permudef(_, _)
RECURSIVE permudef_loop(_, _, _, _, _)
permudef_loop(l, j, k, v, i) ==
    IF i > Len(v)
    THEN [yields |-> <<>>, l |-> [l EXCEPT ![j] = <<k, v>>]]
    ELSE LET inner == permudef([l EXCEPT ![j] = <<k, v[i]>>], j + 1)
             rest == permudef_loop(inner.l, j, k, v, i + 1)
         IN  [yields |-> inner.yields \o rest.yields, l |-> rest.l]

permudef(l, j) ==
    IF j <= Len(l)
    THEN permudef_loop(l, j, l[j][1], l[j][2], 1)
    ELSE [yields |-> <<l>>, l |-> l]

\* dict((k, v) for (k, v) in items)
dict_of(items) ==
    [k \in {items[i][1] : i \in 1..Len(items)} |->
        items[CHOOSE i \in 1..Len(items) :
                items[i][1] = k /\ \A j \in (i + 1)..Len(items) : items[j][1] # k][2]]

\* SourceGrid.make_coords(self.base); ks is self.base.keys()
SourceGrid_make_coords(grid, ks) ==
    LET params == ordered_params(grid.order \o ks, DOMAIN grid.variables)
    IN  IF params.kind # "ok" THEN params ELSE make_coords(grid, params.value)

\* SourceGrid.__len__
RECURSIVE SourceGrid_len(_)
SourceGrid_len(coords) ==
    IF coords = <<>> THEN 1 ELSE Len(Head(coords)[2]) * SourceGrid_len(Tail(coords))

\* SourceGrid.__iter__, run to its end: the sources yielded (s.regularize()
\* leaves the parameters as they are) and the coordinate list as left
SourceGrid_iter(grid, ks, permuted) ==
    [sources |->
        [i \in 1..Len(permuted.yields) |->
            Cloneable_clone(grid.base, ks, dict_of(permuted.yields[i]))],
     coords |-> permuted.l]

---------------------------------------------------------------------------
(* SpecCloneable: keys(), clone() and grids of sources, in any sequence of *)
(* calls in one interpreter.                                               *)

KeysClasses ==
    {"Source", "SourceWithMagnitude", "ExplosionSource", "DCSource",
     "RectangularSource", "CLVDSource"}

ClonePool ==
    {DCSource,
     [DCSource EXCEPT !.stf = UserBoxcar, !.strike = 90, !.magnitude = 210],
     [ExplosionSource EXCEPT !.depth = 1000],
     [CLVDSource EXCEPT !.azimuth = 90, !.stf = UserPulse],
     [DoubleDCSource EXCEPT !.stf1 = UserBoxcar, !.delta_time = 2]}

\* keyword arguments of clone()
CloneKwargs ==
    <<<<>>, [depth |-> 500, time |-> 5], [stf |-> UserBoxcarLate],
      [magnitude |-> 150], [moment |-> Factor(1, 401)]>>

GridRange(values) == [Range_T EXCEPT !.values = values]

SourceGrids ==
    <<[base |-> DCSource, order |-> <<>>,
       variables |-> [strike |-> GridRange(<<RZero, RInt(90)>>)]],
      [base |-> [DCSource EXCEPT !.stf = UserBoxcar], order |-> <<>>,
       variables |->
            [strike |-> [Range_T EXCEPT !.start = RZero, !.stop = RInt(90),
                                        !.step = RInt(45)],
             depth |-> GridRange(<<RInt(1000), RInt(2000)>>)]],
      [base |-> DCSource, order |-> <<"strike", "strike">>,
       variables |->
            [strike |-> GridRange(<<RZero, RInt(90)>>),
             depth |-> GridRange(<<RInt(1000), RInt(2000)>>),
             rake |-> [Range_T EXCEPT !.start = RInt(-90), !.stop = RInt(90),
                                      !.n = <<3>>]]],
      [base |-> [ExplosionSource EXCEPT !.depth = 1000], order |-> <<>>,
       variables |->
            [moment |-> GridRange(<<Factor(1, 381), Factor(1, 401)>>),
             north_shift |-> GridRange(<<RZero, RInt(100)>>)]],
      [base |-> CLVDSource, order |-> <<"dip">>,
       variables |->
            [azimuth |-> GridRange(<<RZero, RInt(90)>>),
             dip |-> GridRange(<<RInt(45)>>)]]>>

InitCloneable ==
    /\ call = [fn |-> "None"]
    /\ class_keys = NoKeys
    /\ SourcesUnused
    /\ EngineUnused
    /\ ProcessUnused

Keys(cls) ==
    /\ call' = [fn |-> "keys", self |-> cls, out |-> keys(class_keys, cls).value]
    /\ class_keys' = keys(class_keys, cls).attrs
    /\ UNCHANGED <<src_a, src_b, fn_out, engine_vars, process_vars>>

Clone(self, kwargs) ==
    /\ call' = [fn |-> "clone", self |-> self, args |-> kwargs,
                out |-> Cloneable_clone(self, keys(class_keys, self.cls).value,
                                        kwargs)]
    /\ class_keys' = keys(class_keys, self.cls).attrs
    /\ UNCHANGED <<src_a, src_b, fn_out, engine_vars, process_vars>>

Iterated(grid, ks, coords) ==
    call' = [fn |-> "iter", self |-> grid,
             len |-> IF coords.kind = "ok" THEN Ok(SourceGrid_len(coords.value))
                     ELSE coords,
             out |-> IF coords.kind = "ok"
                     THEN Ok(SourceGrid_iter(grid, ks, permudef(coords.value, 1)))
                     ELSE coords]

Iterate(grid) ==
    /\ Iterated(grid, keys(class_keys, grid.base.cls).value,
                SourceGrid_make_coords(grid, keys(class_keys, grid.base.cls).value))
    /\ class_keys' = keys(class_keys, grid.base.cls).attrs
    /\ UNCHANGED <<src_a, src_b, fn_out, engine_vars, process_vars>>

NextCloneable ==
    \/ \E cls \in KeysClasses : Keys(cls)
    \/ \E self \in ClonePool, i \in 1..Len(CloneKwargs) :
            /\ DOMAIN CloneKwargs[i] \subseteq
                    {"moment"} \cup {propnames(self.cls)[j] :
                                        j \in 1..Len(propnames(self.cls))}
            /\ "moment" \in DOMAIN CloneKwargs[i]
                    => issubclass(self.cls, "SourceWithMagnitude")
            /\ Clone(self, CloneKwargs[i])
    \/ \E i \in 1..Len(SourceGrids) : Iterate(SourceGrids[i])

SpecCloneable == InitCloneable /\ [][NextCloneable]_vars

\* the parameter names of a class: its parameters, then 'moment' where the
\* class carries a magnitude
TrueKeys(cls) ==
    propnames(cls) \o
        (IF issubclass(cls, "SourceWithMagnitude") THEN <<"moment">> ELSE <<>>)

\* C17: for every source class C, C.keys() returns the list of C's own
\* parameter names (followed by 'moment' for classes that carry a
\* magnitude), whatever calls of keys() have been made before.
C17_KeysOfOwnClass ==
    call.fn = "keys" => call.out = TrueKeys(call.self)

\* a source with its nested STF objects replaced by copies
WithCopiedSTFs(s) ==
    [s EXCEPT !.stf = IF @ = NoSTF THEN @ ELSE STF_clone(@),
              !.stf1 = IF @ = NoSTF THEN @ ELSE STF_clone(@),
              !.stf2 = IF @ = NoSTF THEN @ ELSE STF_clone(@)]

\* a source with the parameter k set to v, 'moment' being set through the
\* magnitude
WithParameter(s, k, v) ==
    IF k = "moment" THEN [s EXCEPT !.magnitude = moment_to_magnitude(v)]
    ELSE [s EXCEPT ![k] = v]

\* a source with a list of (parameter, value) set, for distinct parameters
RECURSIVE WithParameters(_, _)
WithParameters(s, items) ==
    IF items = <<>> THEN s
    ELSE WithParameters(WithParameter(s, Head(items)[1], Head(items)[2]), Tail(items))

ItemsOf(kwargs) ==
    LET ks == TrueKeys("DoubleDCSource") \o TrueKeys("CLVDSource")
    IN  [i \in 1..Len(SelectSeq(ks, LAMBDA k : k \in DOMAIN kwargs)) |->
            <<SelectSeq(ks, LAMBDA k : k \in DOMAIN kwargs)[i],
              kwargs[SelectSeq(ks, LAMBDA k : k \in DOMAIN kwargs)[i]]>>]

\* C16: clone(**kwargs) returns a new object of the same class whose
\* parameters equal the original's, except that every parameter named in
\* kwargs (moment included, on sources that carry a magnitude) has the
\* given value in the clone; nested STF objects are copied.
C16_CloneWithOverrides ==
    call.fn = "clone" =>
        /\ call.out.cls = call.self.cls
        /\ call.out = WithParameters(WithCopiedSTFs(call.self), ItemsOf(call.args))

\* the combinations of the values of coords, the last parameter varying
\* fastest
RECURSIVE Combinations(_)
Combinations(coords) ==
    IF coords = <<>> THEN <<<<>>>>
    ELSE LET k == Head(coords)[1]
             v == Head(coords)[2]
             rest == Combinations(Tail(coords))
         IN  [i \in 1..(Len(v) * Len(rest)) |->
                <<<<k, v[((i - 1) \div Len(rest)) + 1]>>>>
                    \o rest[((i - 1) % Len(rest)) + 1]]

\* the variables of a grid ordered by `order`, then by the parameter order
\* of the base source's class, with the values their ranges expand to
GridCoords(grid) ==
    LET names == SelectSeq(grid.order \o TrueKeys(grid.base.cls),
                           LAMBDA k : k \in DOMAIN grid.variables)
        first == SelectSeq([i \in 1..Len(names) |-> i],
                           LAMBDA i : \A j \in 1..(i - 1) : names[j] # names[i])
    IN  [i \in 1..Len(first) |->
            <<names[first[i]],
              Range_make(grid.variables[names[first[i]]],
                         None, None, None, None).value>>]

\* C15: iterating a SourceGrid yields exactly one source per element of
\* the Cartesian product of the expanded ranges of its variables: len(grid)
\* is the product of the numbers of values, every combination appears
\* exactly once, parameters ordered by `order` then by the base source's
\* parameter order with the last one varying fastest, and the coordinate
\* list is back at the full ranges when the iteration has ended.
C15_GridIsCartesianProduct ==
    call.fn = "iter" =>
        /\ call.len = Ok(Len(Combinations(GridCoords(call.self))))
        /\ call.out.kind = "ok"
        /\ call.out.value.coords = GridCoords(call.self)
        /\ call.out.value.sources =
            [i \in 1..Len(Combinations(GridCoords(call.self))) |->
                WithParameters(WithCopiedSTFs(call.self.base),
                               Combinations(GridCoords(call.self))[i])]

---------------------------------------------------------------------------
(* SpecRule: LocalEngine.channel_rule for one source and one target, on an *)
(* engine with an elastic store (A) and a poroelastic store (C).           *)

RuleEngine == LocalEngine(<<"/gf1">>, <<"/x/c">>, "None")

RuleSources ==
    {class_default(cls) :
        cls \in {"ExplosionSource", "DCSource", "CLVDSource", "MTSource",
                 "DoubleDCSource", "RingfaultSource", "SFSource",
                 "PorePressurePointSource"}}

RuleTargets ==
    {[Target EXCEPT !.quantity = q, !.codes = <<"", "STA", "", cha>>,
                    !.store_id = id, !.azimuth = az, !.dip = az] :
        q \in {"None", "displacement", "velocity", "pore_pressure",
               "vertical_tilt", "darcy_velocity", "rotation"},
        cha \in {<<"Z">>, <<"N">>, <<"E">>, <<"P">>, <<"B", "H", "Z">>, <<"X">>},
        id \in {"A", "C"},
        az \in {None, <<0>>}}

InitRule ==
    /\ call = [fn |-> "None"]
    /\ class_keys = <<>>
    /\ SourcesUnused
    /\ engine = RuleEngine
    /\ last_call = NoCall
    /\ history = NoHistory
    /\ ProcessUnused

ChannelRule(source, target) ==
    /\ call.fn = "None"
    /\ call' = [fn |-> "channel_rule", source |-> source, target |-> target,
                out |-> channel_rule(engine, source, target)]
    /\ UNCHANGED <<class_keys, src_a, src_b, fn_out, engine_vars, process_vars>>

NextRule ==
    \E source \in RuleSources, target \in RuleTargets : ChannelRule(source, target)

SpecRule == InitRule /\ [][NextRule]_vars

\* the components the source of the call provides under the scheme of the
\* target's store
CallProvided ==
    provided_components(
        call.source,
        StoreConfigs[get_store(engine, call.target.store_id).value.dir].component_scheme)

\* the rules of the target's quantity whose required components are all
\* provided
CallUsableRules ==
    IF effective_quantity(call.target).kind # "ok"
            \/ effective_quantity(call.target).value \notin DOMAIN channel_rules
    THEN {}
    ELSE {r \in Image(channel_rules[effective_quantity(call.target).value]) :
            /\ required_components(r, call.target).kind = "ok"
            /\ required_components(r, call.target).value \subseteq CallProvided}

\* C18: channel_rule returns a rule only when every stored component the
\* rule requires for the target is among the components the source provides
\* under the store's component scheme; when the target's quantity has no
\* rule, or no rule has all its required components provided, it fails with
\* the no-rule error (BadRequest).
C18_RuleOnlyIfProvided ==
    call.fn = "channel_rule" =>
        /\ call.out.kind = "ok" => call.out.value \in CallUsableRules
        /\ CallUsableRules = {} => call.out.kind = "BadRequest"

\* a pore pressure source and a poroelastic store give the scalar rule; the
\* same target with a double couple source has no rule
C18_Witness ==
    /\ call.fn = "channel_rule"
    /\ call.source.cls = "PorePressurePointSource"
    /\ call.target.quantity = "pore_pressure"
    /\ call.target.store_id = "C"
    /\ call.out = Ok(ScalarRule("pore_pressure"))

---------------------------------------------------------------------------
(* SpecWindow: LocalEngine.base_seismogram for one source and one target, *)
(* on store A (sampling interval 1/2) with an empty discretization cache.  *)

WindowTimes ==
    {None, Rat(-3, 4), RZero, Rat(1, 4), RHalf, ROne, Rat(9, 4), RInt(3)}

WindowSources ==
    {class_default(cls) : cls \in {"ExplosionSource", "DCSource", "MTSource"}}

\* targets without a time span, with half of one, and with tmin before tmax
WindowTargets ==
    {[Target EXCEPT !.quantity = "displacement", !.store_id = "A",
                    !.tmin = span[1], !.tmax = span[2]] :
        span \in {w \in WindowTimes \X WindowTimes :
                    w[1] = None \/ w[2] = None \/ RLt(w[1], w[2])}}

InitWindow ==
    /\ call = [fn |-> "None"]
    /\ class_keys = <<>>
    /\ SourcesUnused
    /\ engine = RuleEngine
    /\ last_call = NoCall
    /\ history = NoHistory
    /\ ProcessUnused

BaseSeismogram(source, target) ==
    /\ call.fn = "None"
    /\ call' = [fn |-> "base_seismogram", source |-> source, target |-> target,
                out |-> base_seismogram(engine, <<source>>, 1, target,
                                        {"displacement.z"}, EmptyDict)]
    /\ UNCHANGED <<class_keys, src_a, src_b, fn_out, engine_vars, process_vars>>

NextWindow ==
    \E source \in WindowSources, target \in WindowTargets :
        BaseSeismogram(source, target)

SpecWindow == InitWindow /\ [][NextWindow]_vars

\* what the call asked of the store: the stacked trace carries the itmin
\* and nsamples it was asked with
CallTrace == call.out.value.base_seismogram

\* time of sample i of store A
SampleTime(i) == RMul(RInt(i), StoreConfigs["/gf1/a"].deltat)

\* C19: when the target gives both tmin and tmax (tmin = 0 included), the
\* store is asked for an explicit window of samples whose first sample is at
\* or before tmin and whose last sample is at or after tmax; only when tmin
\* or tmax is not given is the window left to the Green's functions.
C19_WindowCoversSpan ==
    call.fn = "base_seismogram" /\ call.out.kind = "ok" =>
        IF call.target.tmin # None /\ call.target.tmax # None
        THEN /\ CallTrace.nsamples # None
             /\ ~RLt(call.target.tmin, SampleTime(CallTrace.itmin))
             /\ ~RLt(SampleTime(CallTrace.itmin + CallTrace.nsamples[1] - 1),
                     call.target.tmax)
        ELSE CallTrace.nsamples = None

---------------------------------------------------------------------------
(* SpecCalls: process called up to MaxProcessCalls times on one engine,    *)
(* with the same source objects.  `call` keeps a log of the running call:  *)
(* the (source, store) keys that were discretized, in order, the keys      *)
(* base_seismogram asked for, the number of times it found its key in the  *)
(* cache, and the keys discretized by the calls before.                    *)

MaxProcessCalls == 2

CallsSources == {<<"s1">>, <<"s1", "s2">>, <<"s1", "s3">>, <<"s4", "s1">>}

CallsTargets == {<<"t1">>, <<"t1", "t2">>, <<"t1", "t4">>, <<"t1", "t3">>}

NoLog ==
    [fn |-> "process", ncalls |-> 1, discretized |-> <<>>, used |-> {},
     hits |-> 0, earlier |-> {}]

InitCalls ==
    /\ engine = LocalEngine(<<"/gf1">>, <<>>, "None")
    /\ last_call = NoCall
    /\ history = NoHistory
    /\ heap = SourceObjects
    /\ request \in [sources : CallsSources, targets : CallsTargets]
    /\ pc = "idle"
    /\ work = EmptyDict
    /\ pending = {}
    /\ returned = EmptyDict
    /\ results_list = <<>>
    /\ dsource_cache = EmptyDict
    /\ counters = [base_seismogram |-> 0]
    /\ err = NoError
    /\ stats = <<>>
    /\ src_a = <<>>
    /\ src_b = <<>>
    /\ fn_out = <<>>
    /\ call = NoLog
    /\ class_keys = <<>>

\* the key _cached_discretize_basesource looks up for work item k
dsource_key(k) ==
    <<work[k].sources[1],
      store_key(get_store(engine,
                          TargetObjects[work[k].targets[1]].store_id).value)>>

\* the elements of a set of keys, listed
RECURSIVE listed_keys(_)
listed_keys(S) ==
    IF S = {} THEN <<>>
    ELSE <<CHOOSE x \in S : TRUE>> \o listed_keys(S \ {CHOOSE x \in S : TRUE})

\* the log after work item k has run and returned out
logged(k, out) ==
    [call EXCEPT
        !.discretized = @ \o listed_keys(DOMAIN out.cache \ DOMAIN dsource_cache),
        !.used = IF out.kind \in {"ok", "OutOfBounds"}
                 THEN @ \cup {dsource_key(k)} ELSE @,
        !.hits = IF out.kind \in {"ok", "OutOfBounds"}
                        /\ dsource_key(k) \in DOMAIN dsource_cache
                 THEN @ + 1 ELSE @]

LoggedSubrequestDone(k, out) ==
    /\ SubrequestDone(k, out)
    /\ call' = logged(k, out)

\* the parallel map runs process_subrequest on one element of work
LoggedSubrequest(k) ==
    /\ pc = "map"
    /\ k \in pending
    /\ pending' = pending \ {k}
    /\ LoggedSubrequestDone(
            k,
            process_subrequest(
                engine, heap, work[k].sources,
                [n \in DOMAIN work[k].targets |-> TargetObjects[work[k].targets[n]]],
                work[k], dsource_cache))
    /\ UNCHANGED <<engine_vars, heap, request, pc, work, results_list, err,
                   stats, src_a, src_b, fn_out, class_keys>>

\* process has returned or raised and is called again, with any request:
\* the locals of the new call are fresh, the engine and the source objects
\* are the same
ProcessAgain ==
    /\ pc \in {"done", "raised"}
    /\ call.ncalls < MaxProcessCalls
    /\ pc' = "idle"
    /\ request' \in [sources : CallsSources, targets : CallsTargets]
    /\ work' = EmptyDict
    /\ pending' = {}
    /\ returned' = EmptyDict
    /\ results_list' = <<>>
    /\ err' = NoError
    /\ stats' = <<>>
    /\ call' = [NoLog EXCEPT !.ncalls = call.ncalls + 1,
                             !.earlier = call.earlier \cup Image(call.discretized)]
    /\ UNCHANGED <<engine_vars, heap, dsource_cache, counters, src_a, src_b,
                   fn_out, class_keys>>

NextCalls ==
    \/ Process
    \/ \E k \in pending : LoggedSubrequest(k)
    \/ \E k \in DOMAIN returned : Collect(k)
    \/ Finish
    \/ ProcessAgain

SpecCalls == InitCalls /\ [][NextCalls]_vars

\* C20: the cache of discretized sources lives for exactly one call of
\* process: within a call no (source, store) pair is discretized twice,
\* every pair base_seismogram asks for is discretized in that same call, and
\* while the map runs the cache holds the discretizations of this call only.
C20_CacheLivesOneCall ==
    /\ \A i, j \in DOMAIN call.discretized :
            call.discretized[i] = call.discretized[j] => i = j
    /\ call.used = Image(call.discretized)
    /\ pc = "map" => DOMAIN dsource_cache = Image(call.discretized)

\* a second call that found a pair in its cache, after discretizing again a
\* pair the first call had discretized
C20_Witness ==
    /\ call.ncalls = 2
    /\ call.hits > 0
    /\ call.earlier \cap Image(call.discretized) # {}

---------------------------------------------------------------------------
(* Stacking statistics of process (Spec).                                  *)

\* the targets of work item k
WorkTargets(k) ==
    [n \in DOMAIN work[k].targets |-> TargetObjects[work[k].targets[n]]]

\* the number of records stacked for work item k: for each component the
\* targets of k require, one record per point of the discretization of the
\* first source of k
StackRecords(k) ==
    Cardinality(subrequest_components(engine, heap[work[k].sources[1]],
                                      WorkTargets(k), {}).value)
        * Len(discretize_basesource(
                heap[work[k].sources[1]],
                StoreConfigs[get_store(engine, WorkTargets(k)[1].store_id).value.dir],
                WorkTargets(k)[1]).times)

\* the number of results that share the stack of work item k
StackShared(k) == Len(work[k].sources) * Len(work[k].targets)

\* the results process has for the pairs of work item k
StackResults(k) ==
    {results_list[work[k].isources[m]][work[k].itargets[n]] :
        m \in DOMAIN work[k].isources, n \in DOMAIN work[k].itargets}

\* the records stacked for the work items S, each stack counted once
RECURSIVE TotalStackRecords(_)
TotalStackRecords(S) ==
    IF S = {} THEN 0
    ELSE StackRecords(CHOOSE k \in S : TRUE)
            + TotalStackRecords(S \ {CHOOSE k \in S : TRUE})

---------------------------------------------------------------------------
(* SpecDoubleDC: one DoubleDCSource, discretized for a store and then      *)
(* post-processed: `call` holds the discretized source and the samples of  *)
(* the post-stack STF that _post_process convolves the stack with.         *)

DoubleDCSources ==
    {[DoubleDCSource EXCEPT !.stf = f[1], !.stf_mode = m, !.stf1 = f[2],
                            !.stf2 = f[3], !.distance = g[1], !.azimuth = g[2],
                            !.delta_depth = g[3], !.delta_time = g[4],
                            !.mix = x] :
        f \in {NoSTF, UserBoxcar} \X {NoSTF, UserBoxcarLate} \X {NoSTF, UserPulse},
        m \in {"pre", "post"},
        g \in {0, 1, 1000} \X {0, 90} \X {0, 500} \X {0, 2},
        x \in {RZero, Rat(1, 4), RHalf, ROne}}

InitDoubleDC ==
    /\ call = [fn |-> "None"]
    /\ class_keys = <<>>
    /\ SourcesUnused
    /\ EngineUnused
    /\ ProcessUnused

\* source.discretize_basesource(store) as base_seismogram calls it, and the
\* stf.discretize_t(deltat, source.get_timeshift()) of _post_process
DiscretizeAndPost(source, store) ==
    /\ call.fn = "None"
    /\ call' = [fn |-> "doubledc", self |-> source, store |-> store,
                ds |-> discretize_basesource(source, store, "None"),
                post |-> discretize_t(effective_stf_post(source), store.deltat,
                                      RInt(get_timeshift(source)))]
    /\ UNCHANGED <<class_keys, src_a, src_b, fn_out, engine_vars, process_vars>>

NextDoubleDC ==
    \E source \in DoubleDCSources, store \in SourceStores :
        DiscretizeAndPost(source, store)

SpecDoubleDC == InitDoubleDC /\ [][NextDoubleDC]_vars

\* the samples stf shapes subsource 1 (2) with on its own: those of stf at
\* the reference time of the subsource
AloneSamples(stf, which) ==
    discretize_t(stf, call.store.deltat,
                 IF which = 1
                 THEN RSub(RZero, RMul(RInt(call.self.delta_time),
                                       RSub(ROne, call.self.mix)))
                 ELSE RMul(RInt(call.self.delta_time), call.self.mix))

\* the indices of the discretized source that belong to subsource 1 (2),
\* the samples of subsource 1 being n1 in number
SubsourceIndices(which, n1) ==
    IF which = 1 THEN 1..n1 ELSE (n1 + 1)..Len(call.ds.times)

\* the discretized source has, at the indices idx counted from first, the
\* times and amplitudes d
ShapedBy(d, first, idx) ==
    /\ idx = first..(first + Len(d.times) - 1)
    /\ \A i \in idx :
        /\ call.ds.times[i] = d.times[i - first + 1]
        /\ call.ds.weights[i].a = d.amplitudes[i - first + 1]

\* the post-stack samples are those of the unit pulse: stf is not applied
\* after stacking
PostIsUnitPulse ==
    call.post.amplitudes =
        discretize_t(g_unit_pulse, call.store.deltat,
                     RInt(get_timeshift(call.self))).amplitudes

\* C22: when stf1 (stf2) is given, the time history of subsource 1 (2) is
\* shaped by stf1 (stf2) alone, for either stf_mode: its samples are those
\* of stf1 (stf2) and `stf` is not applied to it after stacking.
C22_SubsourceSTFOverrides ==
    call.fn = "doubledc" =>
        /\ call.self.stf1 # NoSTF =>
            /\ ShapedBy(AloneSamples(call.self.stf1, 1), 1,
                        SubsourceIndices(1, Len(AloneSamples(call.self.stf1, 1).times)))
            /\ PostIsUnitPulse
        /\ call.self.stf2 # NoSTF =>
            /\ ShapedBy(AloneSamples(call.self.stf2, 2),
                        Len(call.ds.times)
                            - Len(AloneSamples(call.self.stf2, 2).times) + 1,
                        SubsourceIndices(2, Len(call.ds.times)
                            - Len(AloneSamples(call.self.stf2, 2).times)))
            /\ PostIsUnitPulse

\* the number of samples of subsource 1 in the discretized source
FirstCount ==
    Len(AloneSamples(DoubleDCSource_effective_stf1_pre(call.self), 1).times)

\* the centroid time of the samples idx of the discretized source
RECURSIVE WeightedTimes(_)
WeightedTimes(idx) ==
    IF idx = {} THEN RZero
    ELSE RAdd(RMul(call.ds.times[CHOOSE i \in idx : TRUE],
                   call.ds.weights[CHOOSE i \in idx : TRUE].a),
              WeightedTimes(idx \ {CHOOSE i \in idx : TRUE}))

\* both subsources are pulses, so that their samples add up to 1 and the
\* weighted times are the centroid times
BothPulses ==
    /\ DoubleDCSource_effective_stf1_pre(call.self).cls = "STF"
    /\ DoubleDCSource_effective_stf2_pre(call.self).cls = "STF"

\* C23: the two double-couples of the discretized DoubleDCSource lie
\* `distance` metres apart horizontally in the direction `azimuth`,
\* delta_depth apart vertically and delta_time apart in time, for every mix.
C23_SeparatedByDistance ==
    call.fn = "doubledc" =>
        \A i \in SubsourceIndices(1, FirstCount) :
        \A j \in SubsourceIndices(2, FirstCount) :
            /\ RSub(call.ds.north_shifts[j], call.ds.north_shifts[i]) =
                    RInt(call.self.distance * cosd(call.self.azimuth))
            /\ RSub(call.ds.east_shifts[j], call.ds.east_shifts[i]) =
                    RInt(call.self.distance * sind(call.self.azimuth))
            /\ RSub(call.ds.depths[j], call.ds.depths[i]) =
                    RInt(call.self.delta_depth)
            /\ BothPulses =>
                RSub(WeightedTimes(SubsourceIndices(2, FirstCount)),
                     WeightedTimes(SubsourceIndices(1, FirstCount))) =
                    RInt(call.self.delta_time)

---------------------------------------------------------------------------
(* SpecRect: one RectangularSource discretized for a store and a target.   *)

RectSources ==
    {[RectangularSource EXCEPT !.length = g[1], !.width = g[2], !.depth = g[3],
                               !.stf = f, !.stf_mode = m,
                               !.nucleation_x = x, !.slip = u] :
        g \in {0, 1000, 2000} \X {0, 1000} \X {0, 250},
        f \in {NoSTF, UserBoxcar, UserBoxcarLate},
        m \in {"pre", "post"},
        x \in {None, RZero, ROne},
        u \in {None, RInt(2)}}

RectTargets ==
    {[Target EXCEPT !.quantity = "displacement", !.store_id = "A",
                    !.north_shift = 1000, !.interpolation = i] :
        i \in {"nearest_neighbor", "multilinear"}}

InitRect ==
    /\ call = [fn |-> "None"]
    /\ class_keys = <<>>
    /\ SourcesUnused
    /\ EngineUnused
    /\ ProcessUnused

\* source.discretize_basesource(store, target)
DiscretizeRect(source, store, target) ==
    /\ call.fn = "None"
    /\ call' = [fn |-> "discretize_basesource", self |-> source,
                store |-> store, target |-> target,
                ds |-> discretize_basesource(source, store, target),
                after |-> after_discretize_basesource(source)]
    /\ UNCHANGED <<class_keys, src_a, src_b, fn_out, engine_vars, process_vars>>

NextRect ==
    \E source \in RectSources, store \in SourceStores, target \in RectTargets :
        DiscretizeRect(source, store, target)

SpecRect == InitRect /\ [][NextRect]_vars

\* the scalar moments of the elementary contributions of a discretized
\* source, added up: the scalar moment of the tensor times the amplitude
RECURSIVE MomentOf(_, _, _)
MomentOf(weights, lo, hi) ==
    IF lo > hi THEN RZero
    ELSE IF lo = hi THEN RMul(weights[lo].m[5], weights[lo].a)
    ELSE RAdd(MomentOf(weights, lo, (lo + hi) \div 2),
              MomentOf(weights, ((lo + hi) \div 2) + 1, hi))

TotalMoment(ds) == MomentOf(ds.weights, 1, Len(ds.weights))

\* C24: a RectangularSource without slip is discretized to unit total
\* moment: the scalar moment weights of all subpoints times all pre-stack
\* STF samples add up to 1, for every number of subpoints and STF samples.
C24_UnitTotalMoment ==
    call.fn = "discretize_basesource" /\ call.self.slip = None =>
        TotalMoment(call.ds) = ROne

---------------------------------------------------------------------------
(* SpecRectProcess: process on requests with RectangularSource objects,    *)
(* with and without slip, and targets that differ in their interpolation.  *)
(* discretize_basesource may assign to its source, so a work item leaves   *)
(* the heap changed.  `call` logs, per work item, the discretized source   *)
(* its stack was made from.                                                *)

RectObjects ==
    [o \in {"r1", "r2", "r3"} |->
        CASE o = "r1" -> [RectangularSource EXCEPT
                            !.length = 1000, !.width = 1000, !.depth = 250,
                            !.slip = RInt(2)]
          [] o = "r2" -> [RectangularSource EXCEPT
                            !.length = 1000, !.magnitude = 210]
          [] o = "r3" -> [RectangularSource EXCEPT
                            !.length = 1000, !.width = 1000, !.depth = 250,
                            !.slip = RInt(2), !.time = 5, !.magnitude = 210]]

RectRequestSources ==
    {<<"r1">>, <<"r2">>, <<"r1", "r3">>, <<"r3", "r1">>, <<"r1", "r2">>}

RectRequestTargets ==
    {<<"t1">>, <<"t7">>, <<"t1", "t7">>, <<"t7", "t1">>, <<"t1", "t2">>,
     <<"t1", "t3">>}

InitRectProcess ==
    /\ engine = LocalEngine(<<"/gf1">>, <<>>, "None")
    /\ last_call = NoCall
    /\ history = NoHistory
    /\ heap = RectObjects
    /\ request \in [sources : RectRequestSources, targets : RectRequestTargets]
    /\ pc = "idle"
    /\ work = EmptyDict
    /\ pending = {}
    /\ returned = EmptyDict
    /\ results_list = <<>>
    /\ dsource_cache = EmptyDict
    /\ counters = [base_seismogram |-> 0]
    /\ err = NoError
    /\ stats = <<>>
    /\ src_a = <<>>
    /\ src_b = <<>>
    /\ fn_out = <<>>
    /\ call = [fn |-> "process", used |-> EmptyDict]
    /\ class_keys = <<>>

\* work item k gets as far as _cached_discretize_basesource and does not
\* find its key in the cache: discretize_basesource is called
discretizes(k) ==
    /\ subrequest_components(engine, heap[work[k].sources[1]],
                             WorkTargets(k), {}).kind = "ok"
    /\ dsource_key(k) \notin DOMAIN dsource_cache

\* the objects after work item k has run
heap_after(k) ==
    IF discretizes(k)
    THEN [heap EXCEPT ![work[k].sources[1]] = after_discretize_basesource(@)]
    ELSE heap

MutatingSubrequestDone(k, out) ==
    /\ SubrequestDone(k, out)
    /\ call' = IF out.kind \in {"ok", "OutOfBounds"}
               THEN [call EXCEPT !.used = DictSet(@, k, out.cache[dsource_key(k)])]
               ELSE call

\* the parallel map runs process_subrequest on one element of work; what
\* follows the discretization in process_subrequest sees the objects as
\* the discretization left them
MutatingSubrequest(k) ==
    /\ pc = "map"
    /\ k \in pending
    /\ pending' = pending \ {k}
    /\ heap' = heap_after(k)
    /\ MutatingSubrequestDone(
            k,
            process_subrequest(engine, heap_after(k), work[k].sources,
                               WorkTargets(k), work[k], dsource_cache))
    /\ UNCHANGED <<engine_vars, request, pc, work, results_list, err,
                   stats, src_a, src_b, fn_out, class_keys>>

NextRectProcess ==
    \/ Process
    \/ \E k \in pending : MutatingSubrequest(k)
    \/ \E k \in DOMAIN returned : Collect(k)
    \/ Finish

SpecRectProcess == InitRectProcess /\ [][NextRectProcess]_vars

\* C25: process leaves the sources of the request unchanged: when it has
\* returned, every parameter of every source, magnitude included, has the
\* value it had before the call.
C25_SourcesUnchanged ==
    pc = "done" => \A i \in DOMAIN request.sources :
        heap[request.sources[i]] = RectObjects[request.sources[i]]

\* C26: every subrequest is stacked from a discretization made for its own
\* target: the discretized source used for work item k is
\* discretize_basesource(store, target) for the first target of k, with that
\* target's interpolation, also when the same source meets targets of
\* different interpolation in one call.
C26_DiscretizedForOwnTarget ==
    \A k \in DOMAIN call.used :
        call.used[k] =
            discretize_basesource(
                heap[work[k].sources[1]],
                StoreConfigs[get_store(engine, WorkTargets(k)[1].store_id).value.dir],
                WorkTargets(k)[1])

====
